---- MODULE Spec2Model ----
(***************************************************************************)
(* A model of the music-library curation toolkit: the text normalizer,     *)
(* the similarity ratio and the track credit matcher of                    *)
(* update_composer.py, the composer update loop, the artwork scorer and    *)
(* the artwork batch loop of update_album_artworks.py, and the catalog     *)
(* result ranking of src/fetch_itunes_artwork.py.                          *)
(*                                                                         *)
(* A Python str is a sequence of characters; a character is a one-token    *)
(* TLA+ string.  "FW_A" stands for U+FF21 (full-width A), "IDSP" for       *)
(* U+3000 (ideographic space) and "TAB" for U+0009.                        *)
(***************************************************************************)
EXTENDS Integers, Sequences, FiniteSets, TLC

VARIABLES
    \* normalize_text applied once and twice
    text, once, twice, npc,
    \* _find_matching_track_credit: its arguments and what it returned
    track_title, track_credits, match, mpc,
    \* update_album_composers: the albums found (the number of audio files
    \* of each), the loop position, the credits scraped for the current
    \* album, the counters, the files visited and the last file handled
    results, ai, fi, cpc, cur_credits, total_success, total_songs, visited, last,
    \* _calculate_artwork_score: its arguments and the score it returned
    artwork_path, album_name, artist_name, metadata_list, score, spc,
    \* _select_best_match: the catalog results, the targets and the position
    \* of the result returned; the max over all_artworks: the candidates
    \* and the position of the one selected
    search_results, target_artist, target_album, scored_results, best_result,
    all_artworks, best_artwork, rpc,
    \* download_album_artworks: the albums found (the number of audio files
    \* of each), the loop position, the .jpg files of the output directory,
    \* processed_albums, the two collections of the current album, the
    \* paths _download_artwork_for_scoring returned for the current album,
    \* the last call of _download_artwork_for_album, the embedding phase
    \* (the glob result, all_artworks and the position of the best), the
    \* songs skipped, the calls of embed_artwork, the counters and the
    \* files downloaded during the run
    albums_found, album_i, song_j, apc, output_dir, processed_albums,
    songs_without_artwork, album_metadata_collection, gathered, download,
    existing_artworks, ranked_artworks, selected, skipped, embed_calls,
    art_success, art_songs, downloaded,
    \* which of the two artwork scripts runs
    script,
    \* the start of update_album_artworks.py: the keys the configuration
    \* file holds, the position of the process and the outcome of every
    \* call of _try_download_artwork
    config_keys, kpc, attempts,
    \* _calculate_similarity_ratio: two texts and the ratio of each to the
    \* other
    a_text, b_text, similarity_ab, similarity_ba, qpc,
    \* _format_composer_info: the credit record and the text returned
    matching_credit, composer_info, fpc,
    \* _try_download_artwork: the tags of the song, the query of the call,
    \* which of the two calls it is, and the targets handed to the fetcher
    tag_album, tag_artist, search_query, query_kind, passed_artist, passed_album, ypc,
    \* TowerRecordsScraper: the method that runs and its position, the
    \* delays and requests so far, the requests in flight and the number
    \* of methods called
    scraper_method, scraper_pc, events, in_flight, calls_made

normVars == <<text, once, twice, npc>>
matchVars == <<track_title, track_credits, match, mpc>>
composerVars == <<results, ai, fi, cpc, cur_credits, total_success, total_songs, visited, last>>
scoreVars == <<artwork_path, album_name, artist_name, metadata_list, score, spc>>
selectVars == <<search_results, target_artist, target_album, scored_results, best_result,
                all_artworks, best_artwork, rpc>>
artVars == <<albums_found, album_i, song_j, apc, output_dir, processed_albums,
             songs_without_artwork, album_metadata_collection, gathered, download,
             existing_artworks, ranked_artworks, selected, skipped, embed_calls,
             art_success, art_songs, downloaded, script>>
configVars == <<config_keys, kpc, attempts>>
simVars == <<a_text, b_text, similarity_ab, similarity_ba, qpc>>
formatVars == <<matching_credit, composer_info, fpc>>
scraperVars == <<scraper_method, scraper_pc, events, in_flight, calls_made>>
queryVars == <<tag_album, tag_artist, search_query, query_kind, passed_artist,
               passed_album, ypc>>
vars == <<normVars, matchVars, composerVars, scoreVars, selectVars, artVars,
          configVars, simVars, formatVars, queryVars, scraperVars>>

\* what each component leaves alone
notNormVars == <<matchVars, composerVars, scoreVars, selectVars, artVars,
    configVars, simVars, formatVars, queryVars, scraperVars>>
notMatchVars == <<normVars, composerVars, scoreVars, selectVars, artVars,
    configVars, simVars, formatVars, queryVars, scraperVars>>
notComposerVars == <<normVars, matchVars, scoreVars, selectVars, artVars,
    configVars, simVars, formatVars, queryVars, scraperVars>>
notScoreVars == <<normVars, matchVars, composerVars, selectVars, artVars,
    configVars, simVars, formatVars, queryVars, scraperVars>>
notSelectVars == <<normVars, matchVars, composerVars, scoreVars, artVars,
    configVars, simVars, formatVars, queryVars, scraperVars>>
notArtVars == <<normVars, matchVars, composerVars, scoreVars, selectVars,
    configVars, simVars, formatVars, queryVars, scraperVars>>
notConfigVars == <<normVars, matchVars, composerVars, scoreVars, selectVars,
    artVars, simVars, formatVars, queryVars, scraperVars>>
notSimVars == <<normVars, matchVars, composerVars, scoreVars, selectVars,
    artVars, configVars, formatVars, queryVars, scraperVars>>
notFormatVars == <<normVars, matchVars, composerVars, scoreVars, selectVars,
    artVars, configVars, simVars, queryVars, scraperVars>>
notQueryVars == <<normVars, matchVars, composerVars, scoreVars, selectVars,
    artVars, configVars, simVars, formatVars, scraperVars>>
notScraperVars == <<normVars, matchVars, composerVars, scoreVars, selectVars,
    artVars, configVars, simVars, formatVars, queryVars>>

----------------------------------------------------------------------------
(* Python str primitives                                                   *)

EmptyStr == <<>>

\* str.lower() on one character
UpperCase == <<"A", "B", "C", "D", "E", "F", "G", "H", "I", "J", "K", "L", "M",
               "N", "O", "P", "Q", "R", "S", "T", "U", "V", "W", "X", "Y", "Z">>
LowerCase == <<"a", "b", "c", "d", "e", "f", "g", "h", "i", "j", "k", "l", "m",
               "n", "o", "p", "q", "r", "s", "t", "u", "v", "w", "x", "y", "z">>

LowerChar(c) ==
    IF \E i \in 1..Len(UpperCase) : UpperCase[i] = c
    THEN LowerCase[CHOOSE i \in 1..Len(UpperCase) : UpperCase[i] = c]
    ELSE c

\* str.lower()
Lower(s) == [i \in 1..Len(s) |-> LowerChar(s[i])]

\* unicodedata.normalize('NFKC', c) on one character: the compatibility
\* variants fold to their ASCII counterparts
NFKCChar(c) ==
    CASE c = "FW_A" -> "A"
      [] c = "IDSP" -> " "
      [] OTHER -> c

NFKC(s) == [i \in 1..Len(s) |-> NFKCChar(s[i])]

\* the regex class \s
IsSpace(c) == c \in {" ", "TAB", "IDSP"}

Digits == {"0", "1", "2", "3", "4", "5", "6", "7", "8", "9"}

\* the regex class \w: letters, digits and the underscore
IsWord(c) ==
    \/ \E i \in 1..Len(LowerCase) : LowerCase[i] = c \/ UpperCase[i] = c
    \/ c \in Digits
    \/ c = "_"
    \/ c = "FW_A"

\* `a in b` on str
IsSubstring(a, b) ==
    \E i \in 0..(Len(b) - Len(a)) : SubSeq(b, i + 1, i + Len(a)) = a

\* set(s)
CharSet(s) == {s[i] : i \in 1..Len(s)}

\* re.sub(r'\s+', ' ', s): every maximal run of whitespace becomes one space
CollapseSpaces(s) ==
    LET F[i \in 0..Len(s)] ==
            IF i = 0 THEN <<>>
            ELSE IF IsSpace(s[i])
                 THEN IF i > 1 /\ IsSpace(s[i - 1])
                      THEN F[i - 1]
                      ELSE Append(F[i - 1], " ")
                 ELSE Append(F[i - 1], s[i])
    IN F[Len(s)]

\* str.strip(): leading and trailing whitespace removed
Strip(s) ==
    LET nonSpace == {i \in 1..Len(s) : ~IsSpace(s[i])}
    IN IF nonSpace = {} THEN <<>>
       ELSE LET lo == CHOOSE i \in nonSpace : \A j \in nonSpace : i <= j
                hi == CHOOSE i \in nonSpace : \A j \in nonSpace : i >= j
            IN SubSeq(s, lo, hi)

KeepWordOrSpace(c) == IsWord(c) \/ IsSpace(c)

\* re.sub(r'[^\w\s]', '', s)
RemoveSymbols(s) == SelectSeq(s, KeepWordOrSpace)

----------------------------------------------------------------------------
(* update_composer.py: normalize_text                                      *)

normalize_text(t) ==
    IF t = EmptyStr THEN EmptyStr
    ELSE RemoveSymbols(Strip(CollapseSpaces(Lower(NFKC(t)))))

----------------------------------------------------------------------------
(* update_composer.py: _calculate_similarity_ratio                         *)

Min2(a, b) == IF a <= b THEN a ELSE b
Max2(a, b) == IF a >= b THEN a ELSE b

\* a variant whose first term is the share of the first text's characters
\* that the second text holds
calculate_similarity_ratio_of_first(text1, text2) ==
    IF text1 = EmptyStr \/ text2 = EmptyStr THEN [num |-> 0, den |-> 1]
    ELSE LET set1 == CharSet(text1)
             inter == Cardinality(set1 \cap CharSet(text2))
             mn == Min2(Len(text1), Len(text2))
             mx == Max2(Len(text1), Len(text2))
         IN [num |-> inter * mx + mn * Cardinality(set1),
             den |-> 2 * Cardinality(set1) * mx]

\* a variant that compares the texts position by position
calculate_similarity_ratio_positional(text1, text2) ==
    IF text1 = EmptyStr \/ text2 = EmptyStr THEN [num |-> 0, den |-> 1]
    ELSE LET mn == Min2(Len(text1), Len(text2))
             mx == Max2(Len(text1), Len(text2))
             same == Cardinality({i \in 1..mn : text1[i] = text2[i]})
         IN [num |-> same + mn, den |-> 2 * mx]

\* a variant that counts every occurrence of a character in the union
calculate_similarity_ratio_of_bags(text1, text2) ==
    IF text1 = EmptyStr \/ text2 = EmptyStr THEN [num |-> 0, den |-> 1]
    ELSE LET inter == Cardinality(CharSet(text1) \cap CharSet(text2))
             union == Len(text1) + Len(text2) - inter
             mn == Min2(Len(text1), Len(text2))
             mx == Max2(Len(text1), Len(text2))
         IN [num |-> inter * mx + mn * union, den |-> 2 * union * mx]

\* a variant that takes equal texts for identical before anything else
calculate_similarity_ratio_equal_first(text1, text2) ==
    IF text1 = text2 THEN [num |-> 1, den |-> 1]
    ELSE IF text1 = EmptyStr \/ text2 = EmptyStr THEN [num |-> 0, den |-> 1]
    ELSE LET inter == Cardinality(CharSet(text1) \cap CharSet(text2))
             union == Cardinality(CharSet(text1) \cup CharSet(text2))
             mn == Min2(Len(text1), Len(text2))
             mx == Max2(Len(text1), Len(text2))
         IN [num |-> inter * mx + mn * union, den |-> 2 * union * mx]

\* The float the code returns, kept as the exact fraction num/den:
\* (|set1 & set2| / |set1 | set2| + min(len) / max(len)) / 2, and 0.0 when
\* either text is empty.  Within the model's lengths the float comparison
\* and the exact one agree.
calculate_similarity_ratio(text1, text2) ==
    IF text1 = EmptyStr \/ text2 = EmptyStr THEN [num |-> 0, den |-> 1]
    ELSE LET set1 == CharSet(text1)
             set2 == CharSet(text2)
             inter == Cardinality(set1 \cap set2)
             union == Cardinality(set1 \cup set2)
             mn == Min2(Len(text1), Len(text2))
             mx == Max2(Len(text1), Len(text2))
         IN IF union = 0 THEN [num |-> 0, den |-> 1]
            ELSE [num |-> inter * mx + mn * union, den |-> 2 * union * mx]

\* similarity_ratio >= 0.8
AtLeastThreshold(r) == 5 * r.num >= 4 * r.den

----------------------------------------------------------------------------
(* update_composer.py: _find_matching_track_credit                         *)

\* a key that a dict does not hold
Missing == <<"<missing>">>

\* dict.get(key, default)
Get(value, default) == IF value = Missing THEN default ELSE value

\* the first index of a set of list positions, 0 when there is none
FirstIndex(S) == IF S = {} THEN 0 ELSE CHOOSE i \in S : \A j \in S : i <= j

IsDigit(c) == c \in Digits

\* re.search(r'^(\d+)', s).group(1): the leading run of digits, empty when
\* the search finds nothing
LeadingDigits(s) ==
    LET stop == {i \in 1..Len(s) : ~IsDigit(s[i])}
    IN IF stop = {} THEN s ELSE SubSeq(s, 1, FirstIndex(stop) - 1)

NoMatch == [index |-> 0, tier |-> "none"]

\* before the call returns
NotCalled == [index |-> 0, tier |-> "unset"]

\* the positions the first loop returns at
ExactHits(t, credits) ==
    {i \in DOMAIN credits :
        normalize_text(Get(credits[i].title, EmptyStr)) = normalize_text(t)}

\* the positions the second loop returns at: similarity and substring are
\* tried on one candidate before the loop moves to the next
PartialHits(t, credits) ==
    {i \in DOMAIN credits :
        LET tower == normalize_text(Get(credits[i].title, EmptyStr))
            own == normalize_text(t)
        IN /\ tower # EmptyStr
           /\ \/ AtLeastThreshold(calculate_similarity_ratio(own, tower))
              \/ IsSubstring(own, tower)
              \/ IsSubstring(tower, own)}

\* the positions the third loop returns at
NumberHits(t, credits) ==
    IF LeadingDigits(t) = EmptyStr THEN {}
    ELSE {i \in DOMAIN credits :
            Get(credits[i].track_number, EmptyStr) = LeadingDigits(t)}

\* a variant with one loop per criterion: similarity over the whole list,
\* then substring over the whole list
find_matching_track_credit_tiered(t, credits) ==
    LET similar == {i \in PartialHits(t, credits) :
                      AtLeastThreshold(calculate_similarity_ratio(
                          normalize_text(t),
                          normalize_text(Get(credits[i].title, EmptyStr))))}
    IN IF t = EmptyStr \/ credits = <<>> THEN NoMatch
       ELSE IF ExactHits(t, credits) # {}
            THEN [index |-> FirstIndex(ExactHits(t, credits)), tier |-> "exact"]
       ELSE IF similar # {}
            THEN [index |-> FirstIndex(similar), tier |-> "partial"]
       ELSE IF PartialHits(t, credits) # {}
            THEN [index |-> FirstIndex(PartialHits(t, credits)), tier |-> "partial"]
       ELSE IF NumberHits(t, credits) # {}
            THEN [index |-> FirstIndex(NumberHits(t, credits)), tier |-> "number"]
       ELSE NoMatch

\* a variant without the first loop: exact and partial matches compete in
\* list order
find_matching_track_credit_one_pass(t, credits) ==
    LET any == ExactHits(t, credits) \cup PartialHits(t, credits)
    IN IF t = EmptyStr \/ credits = <<>> THEN NoMatch
       ELSE IF any # {}
            THEN [index |-> FirstIndex(any),
                  tier |-> IF FirstIndex(any) \in ExactHits(t, credits)
                           THEN "exact" ELSE "partial"]
       ELSE IF NumberHits(t, credits) # {}
            THEN [index |-> FirstIndex(NumberHits(t, credits)), tier |-> "number"]
       ELSE NoMatch

\* a variant whose third loop keeps the last credit of the track number
find_matching_track_credit_last_number(t, credits) ==
    IF t = EmptyStr \/ credits = <<>> THEN NoMatch
    ELSE IF ExactHits(t, credits) # {}
         THEN [index |-> FirstIndex(ExactHits(t, credits)), tier |-> "exact"]
    ELSE IF PartialHits(t, credits) # {}
         THEN [index |-> FirstIndex(PartialHits(t, credits)), tier |-> "partial"]
    ELSE IF NumberHits(t, credits) # {}
         THEN [index |-> CHOOSE i \in NumberHits(t, credits) :
                            \A j \in NumberHits(t, credits) : i >= j,
               tier |-> "number"]
    ELSE NoMatch

\* a variant without the guard on empty arguments
find_matching_track_credit_unguarded(t, credits) ==
    IF ExactHits(t, credits) # {}
    THEN [index |-> FirstIndex(ExactHits(t, credits)), tier |-> "exact"]
    ELSE IF PartialHits(t, credits) # {}
         THEN [index |-> FirstIndex(PartialHits(t, credits)), tier |-> "partial"]
    ELSE IF NumberHits(t, credits) # {}
         THEN [index |-> FirstIndex(NumberHits(t, credits)), tier |-> "number"]
    ELSE NoMatch

\* index: the position of the credit returned (0 for None); tier: the loop
\* whose return statement returned it
find_matching_track_credit(t, credits) ==
    IF t = EmptyStr \/ credits = <<>> THEN NoMatch
    ELSE IF ExactHits(t, credits) # {}
         THEN [index |-> FirstIndex(ExactHits(t, credits)), tier |-> "exact"]
    ELSE IF PartialHits(t, credits) # {}
         THEN [index |-> FirstIndex(PartialHits(t, credits)), tier |-> "partial"]
    ELSE IF NumberHits(t, credits) # {}
         THEN [index |-> FirstIndex(NumberHits(t, credits)), tier |-> "number"]
    ELSE NoMatch

----------------------------------------------------------------------------
(* update_composer.py: _format_composer_info                               *)

\* The three labels the formatter looks up: "SAKUSHI" stands for the label
\* U+4F5C U+8A5E (lyrics), "SAKKYOKU" for U+4F5C U+66F2 (music) and
\* "HENKYOKU" for U+7DE8 U+66F2 (arrangement).
Part(label, value) == <<label, ":", " ">> \o value

\* '/'.join(parts)
RECURSIVE JoinSlash(_)
JoinSlash(parts) ==
    IF parts = <<>> THEN EmptyStr
    ELSE IF Len(parts) = 1 THEN parts[1]
    ELSE parts[1] \o <<"/">> \o JoinSlash(Tail(parts))

\* a variant that puts the music before the lyrics
format_composer_info_music_first(credit) ==
    LET parts ==
            (IF credit.sakkyoku # Missing THEN <<Part("SAKKYOKU", credit.sakkyoku)>> ELSE <<>>)
         \o (IF credit.sakushi # Missing THEN <<Part("SAKUSHI", credit.sakushi)>> ELSE <<>>)
         \o (IF credit.henkyoku # Missing THEN <<Part("HENKYOKU", credit.henkyoku)>> ELSE <<>>)
    IN JoinSlash(parts)

format_composer_info(credit) ==
    LET parts ==
            (IF credit.sakushi # Missing THEN <<Part("SAKUSHI", credit.sakushi)>> ELSE <<>>)
         \o (IF credit.sakkyoku # Missing THEN <<Part("SAKKYOKU", credit.sakkyoku)>> ELSE <<>>)
         \o (IF credit.henkyoku # Missing THEN <<Part("HENKYOKU", credit.henkyoku)>> ELSE <<>>)
    IN JoinSlash(parts)

\* bool(credit): a dict is false when it holds no key
IsEmptyDict(credit) == \A k \in DOMAIN credit : credit[k] = Missing

----------------------------------------------------------------------------
(* src/audio_metadata_writer.py: the methods of AudioMetadataWriter        *)

WriterMethods ==
    {"embed_artwork", "_embed_to_mp3", "_embed_to_mp4", "_embed_to_flac",
     "update_metadata", "_update_mp3_metadata", "_update_mp4_metadata",
     "_update_flac_metadata"}

----------------------------------------------------------------------------
(* update_album_artworks.py: _calculate_artwork_score                      *)

\* os.path.basename(path): what follows the last "/"
Basename(path) ==
    LET slashes == {i \in 1..Len(path) : path[i] = "/"}
    IN IF slashes = {} THEN path
       ELSE SubSeq(path, (CHOOSE i \in slashes : \A j \in slashes : i >= j) + 1, Len(path))

\* sum(1 for meta in metadata_list if meta.get('artist', '').lower() == artist_name.lower())
ArtistMatches(artist, metadatas) ==
    Cardinality({i \in DOMAIN metadatas :
                   Lower(Get(metadatas[i].artist, EmptyStr)) = Lower(artist)})

\* the bonus of the artist consistency check; `artist_matches >= len * 0.8`
\* is kept exact as 5 * artist_matches >= 4 * len
ConsistencyBonus(artist, metadatas) ==
    IF artist = EmptyStr THEN 0
    ELSE IF ArtistMatches(artist, metadatas) = Len(metadatas) THEN 50
    ELSE IF 5 * ArtistMatches(artist, metadatas) >= 4 * Len(metadatas) THEN 30
    ELSE 0

\* a variant that reads the separators of a file name as spaces
SeparatorsAsSpaces(s) == [i \in 1..Len(s) |-> IF s[i] = "_" THEN " " ELSE s[i]]

calculate_artwork_score_loose(path, album, artist, metadatas) ==
    LET filename == SeparatorsAsSpaces(Basename(path))
    IN (IF artist # EmptyStr /\ IsSubstring(Lower(artist), Lower(filename)) THEN 100 ELSE 0)
     + (IF album # EmptyStr /\ IsSubstring(Lower(album), Lower(filename)) THEN 100 ELSE 0)
     + Len(metadatas) * 10
     + ConsistencyBonus(artist, metadatas)

\* a variant that compares the names as they are written
calculate_artwork_score_case_sensitive(path, album, artist, metadatas) ==
    LET filename == Basename(path)
        matches == Cardinality({i \in DOMAIN metadatas :
                                  Get(metadatas[i].artist, EmptyStr) = artist})
    IN (IF artist # EmptyStr /\ IsSubstring(artist, filename) THEN 100 ELSE 0)
     + (IF album # EmptyStr /\ IsSubstring(album, filename) THEN 100 ELSE 0)
     + Len(metadatas) * 10
     + (IF artist = EmptyStr THEN 0
        ELSE IF matches = Len(metadatas) THEN 50
        ELSE IF 5 * matches >= 4 * Len(metadatas) THEN 30
        ELSE 0)

\* a variant whose two consistency tests are independent of each other
calculate_artwork_score_both_bonuses(path, album, artist, metadatas) ==
    LET filename == Basename(path)
    IN (IF artist # EmptyStr /\ IsSubstring(Lower(artist), Lower(filename)) THEN 100 ELSE 0)
     + (IF album # EmptyStr /\ IsSubstring(Lower(album), Lower(filename)) THEN 100 ELSE 0)
     + Len(metadatas) * 10
     + (IF artist # EmptyStr /\ ArtistMatches(artist, metadatas) = Len(metadatas)
        THEN 50 ELSE 0)
     + (IF artist # EmptyStr /\ 5 * ArtistMatches(artist, metadatas) >= 4 * Len(metadatas)
        THEN 30 ELSE 0)

\* a variant that counts no more than three related tracks
calculate_artwork_score_capped(path, album, artist, metadatas) ==
    LET filename == Basename(path)
    IN (IF artist # EmptyStr /\ IsSubstring(Lower(artist), Lower(filename)) THEN 100 ELSE 0)
     + (IF album # EmptyStr /\ IsSubstring(Lower(album), Lower(filename)) THEN 100 ELSE 0)
     + (IF Len(metadatas) < 3 THEN Len(metadatas) ELSE 3) * 10
     + ConsistencyBonus(artist, metadatas)

calculate_artwork_score(path, album, artist, metadatas) ==
    LET filename == Basename(path)
    IN (IF artist # EmptyStr /\ IsSubstring(Lower(artist), Lower(filename)) THEN 100 ELSE 0)
     + (IF album # EmptyStr /\ IsSubstring(Lower(album), Lower(filename)) THEN 100 ELSE 0)
     + Len(metadatas) * 10
     + ConsistencyBonus(artist, metadatas)

----------------------------------------------------------------------------
(* src/fetch_itunes_artwork.py: _select_best_match                         *)

\* set(s.split()): the maximal runs of characters that are not whitespace
Words(s) ==
    LET starts == {i \in 1..Len(s) : ~IsSpace(s[i]) /\ (i = 1 \/ IsSpace(s[i - 1]))}
        ends == {j \in 1..Len(s) : ~IsSpace(s[j]) /\ (j = Len(s) \/ IsSpace(s[j + 1]))}
        EndOf(i) == CHOOSE j \in ends : j >= i /\ \A k \in ends : k >= i => j <= k
    IN {SubSeq(s, i, EndOf(i)) : i \in starts}

\* `if target:` a target that is None or empty is not given
Given(target) == target # Missing /\ target # EmptyStr

\* a variant that rewards a partial match like an exact one
NameScore_partial_as_exact(target, field) ==
    IF ~Given(target) THEN 0
    ELSE (IF Lower(target) = field THEN 100
          ELSE IF IsSubstring(Lower(target), field) \/ IsSubstring(field, Lower(target))
               THEN 100 ELSE 0)
         + Cardinality(Words(Lower(target)) \cap Words(field)) * 10

\* the points one target earns against one field of a result
NameScore(target, field) ==
    IF ~Given(target) THEN 0
    ELSE (IF Lower(target) = field THEN 100
          ELSE IF IsSubstring(Lower(target), field) \/ IsSubstring(field, Lower(target))
               THEN 50 ELSE 0)
         + Cardinality(Words(Lower(target)) \cap Words(field)) * 10

\* calculate_score(result)
calculate_score(result, artist, album) ==
    NameScore(artist, Lower(Get(result.artistName, EmptyStr)))
  + NameScore(album, Lower(Get(result.collectionName, EmptyStr)))

\* a variant of the insertion that puts a result before its equals
InsertBeforeEquals(sorted, i, scores) ==
    LET ahead == {k \in 1..Len(sorted) : scores[sorted[k]] > scores[i]}
    IN SubSeq(sorted, 1, Cardinality(ahead)) \o <<i>>
       \o SubSeq(sorted, Cardinality(ahead) + 1, Len(sorted))

\* where position i goes in a list of positions sorted by descending
\* score: behind every position whose score is not smaller (the sort is
\* stable, reverse=True keeps equals in their original order)
InsertDescending(sorted, i, scores) ==
    LET ahead == {k \in 1..Len(sorted) : scores[sorted[k]] >= scores[i]}
    IN SubSeq(sorted, 1, Cardinality(ahead)) \o <<i>>
       \o SubSeq(sorted, Cardinality(ahead) + 1, Len(sorted))

\* scored_results.sort(key=lambda x: x[1], reverse=True), as the list of
\* the original positions
RECURSIVE SortedPrefix(_, _)
SortedPrefix(scores, n) ==
    IF n = 0 THEN <<>>
    ELSE InsertDescending(SortedPrefix(scores, n - 1), n, scores)

SortDescending(scores) == SortedPrefix(scores, Len(scores))

\* scored_results before the sort: the score of every result, in the
\* order of the results; empty when the function returns before it ranks
ScoredResults(found, artist, album) ==
    IF found = <<>> \/ (~Given(artist) /\ ~Given(album)) THEN <<>>
    ELSE [i \in 1..Len(found) |-> calculate_score(found[i], artist, album)]

\* a variant that looks at the targets before it looks at the list
select_best_match_targets_first(found, artist, album, scored) ==
    IF ~Given(artist) /\ ~Given(album) THEN 1
    ELSE IF found = <<>> THEN 0
    ELSE SortDescending(scored)[1]

\* the position of the result returned, 0 for None
select_best_match(found, artist, album, scored) ==
    IF found = <<>> THEN 0
    ELSE IF ~Given(artist) /\ ~Given(album) THEN 1
    ELSE SortDescending(scored)[1]

----------------------------------------------------------------------------
(* update_album_artworks.py: max(all_artworks, key=lambda x: x['score'])   *)

\* max() keeps the first of the maximal items
PositionOfMax(scores) ==
    CHOOSE i \in 1..Len(scores) :
        /\ \A j \in 1..Len(scores) : scores[j] <= scores[i]
        /\ \A j \in 1..(i - 1) : scores[j] < scores[i]

\* the position in all_artworks of best_artwork, 0 for None
select_best_artwork(artworks) ==
    IF artworks = <<>> THEN 0
    ELSE PositionOfMax([i \in 1..Len(artworks) |-> artworks[i].score])

----------------------------------------------------------------------------
(* Bounded inputs                                                          *)

MaxLen == 3

TextChars == {"a", "A", "FW_A", "1", " ", "IDSP", "-", "_"}

RECURSIVE StringsUpTo(_, _)
StringsUpTo(chars, n) ==
    IF n = 0 THEN {<<>>}
    ELSE LET shorter == StringsUpTo(chars, n - 1)
         IN shorter \cup {Append(s, c) : s \in {x \in shorter : Len(x) = n - 1}, c \in chars}

NotYet == <<"<unset>">>

MaxCredits == 2

\* track titles as the tag reader returns them
TargetTitles ==
    {EmptyStr, <<"a">>, <<"a", "b">>, <<"A", "-", "b">>, <<"-">>,
     <<"1", "-">>, <<"1", "a">>}

\* the title and track_number of a scraped credit record
CreditTitles ==
    {Missing, EmptyStr, <<"a">>, <<"b", "a">>, <<"a", "b">>, <<"A", "B">>, <<"-">>}
CreditNumbers == {Missing, <<"1">>, <<"2">>}

CreditRecords == [title : CreditTitles, track_number : CreditNumbers]

MaxAlbums == 2
MaxFiles == 2

\* the tags the metadata extractor reports for a file; it replaces an
\* absent title or composer by a placeholder, so neither is ever empty
UnknownComposer == <<"Unknown", " ", "Composer">>
FileTitles == {<<"a">>, <<"b">>, <<"-">>}
FileComposers == {UnknownComposer, Part("SAKKYOKU", <<"x">>)}
FileMetadata == [title : FileTitles, composer : FileComposers]

\* the credit records a product page yields, the record without any key
\* among them
ScrapedRecords ==
    [title : {Missing, <<"a">>}, track_number : {Missing}, sakushi : {Missing},
     sakkyoku : {Missing, <<"x">>}, henkyoku : {Missing, <<"y">>}]

MaxTracks == 5

\* file names, album names and artist names of the artwork scorer
QueenUnderscoredJpg ==
    <<"t", "m", "p", "/", "a", "r", "t", "w", "o", "r", "k", "/", "Q", "u",
      "e", "e", "n", "_", "A", "_", "N", "i", "g", "h", "t", "_", "A", "t",
      "_", "T", "h", "e", "_", "O", "p", "e", "r", "a", ".", "j", "p", "g">>
QueenSpacedJpg ==
    <<"t", "m", "p", "/", "a", "r", "t", "w", "o", "r", "k", "/", "Q", "u",
      "e", "e", "n", "_", "A", " ", "N", "i", "g", "h", "t", " ", "a", "t",
      " ", "t", "h", "e", " ", "O", "p", "e", "r", "a", ".", "j", "p", "g">>
OperaJpg ==
    <<"t", "m", "p", "/", "a", "r", "t", "w", "o", "r", "k", "/", "A", " ",
      "N", "i", "g", "h", "t", " ", "a", "t", " ", "t", "h", "e", " ", "O",
      "p", "e", "r", "a", ".", "j", "p", "g">>
GoldJpg ==
    <<"t", "m", "p", "/", "a", "r", "t", "w", "o", "r", "k", "/", "G", "o",
      "l", "d", ".", "j", "p", "g">>
ANightAtTheOpera ==
    <<"A", " ", "N", "i", "g", "h", "t", " ", "a", "t", " ", "t", "h", "e",
      " ", "O", "p", "e", "r", "a">>
Gold ==
    <<"G", "o", "l", "d">>
Queen ==
    <<"Q", "u", "e", "e", "n">>
QueenUpper ==
    <<"Q", "U", "E", "E", "N">>
Abba ==
    <<"A", "b", "b", "a">>

ArtworkPaths == {QueenUnderscoredJpg, QueenSpacedJpg, OperaJpg, GoldJpg}
AlbumNames == {EmptyStr, ANightAtTheOpera, Gold}
ArtistNames == {EmptyStr, Queen, Abba}
TrackMetadata == [artist : {Queen, QueenUpper, Abba, Missing}]

MaxResults == 3

GoldLive == <<"G", "o", "l", "d", " ", "L", "i", "v", "e">>
AbbaGold == <<"A", "b", "b", "a", " ", "G", "o", "l", "d">>

\* catalog results: artistName and collectionName, either of which a
\* result may lack
SearchResults == [artistName : {Missing, Queen, Abba}, collectionName : {Missing, Gold, GoldLive}]
TargetArtists == {Missing, QueenUpper, AbbaGold}
TargetAlbums == {Missing, Gold, GoldLive}

\* entries of all_artworks
ScoredArtworks == [path : {OperaJpg, GoldJpg}, score : {60, 160}]

RECURSIVE ListsUpTo(_, _)
ListsUpTo(S, n) ==
    IF n = 0 THEN {<<>>}
    ELSE LET shorter == ListsUpTo(S, n - 1)
         IN shorter \cup {Append(l, x) : l \in {y \in shorter : Len(y) = n - 1}, x \in S}

\* the album and artist tags of the songs of the artwork batch (the
\* extractor replaces an absent tag by a placeholder), and the album names
\* the catalog answers with
Hi == <<"H", "i">>
Hit == <<"H", "i", "t">>
Op == <<"O", "p">>
Q == <<"Q">>
UnknownAlbum == <<"U", "n", "k", "n", "o", "w", "n", " ", "A", "l", "b", "u", "m">>
UnknownArtist == <<"U", "n", "k", "n", "o", "w", "n", " ", "A", "r", "t", "i", "s", "t">>
AlbumTags == {Hi, Hit, UnknownAlbum}
ArtistTags == {Q, UnknownArtist}
CatalogAlbums == {Hi, Op}

----------------------------------------------------------------------------
(* update_album_artworks.py: the files of the output directory, the        *)
(* download of one artwork and the embedding phase                         *)

JpgExt == <<".", "j", "p", "g">>
OutputDirName == <<"t", "m", "p", "/", "a", "r", "t", "w", "o", "r", "k">>

UnsafeChars == {"/", "\\", ":", "*", "?", "\"", "<", ">", "|"}

\* every unsafe character becomes "_", then strip()
make_safe_filename(filename) ==
    Strip([i \in 1..Len(filename) |->
              IF filename[i] \in UnsafeChars THEN "_" ELSE filename[i]])

\* f"{self.output_dir}/{safe(album)}.jpg"
AlbumFile(album) ==
    OutputDirName \o <<"/">> \o make_safe_filename(album) \o JpgExt

\* f"{self.output_dir}/{safe(artist)}_{safe(album)}.jpg"
ArtistAlbumFile(artist, album) ==
    OutputDirName \o <<"/">> \o make_safe_filename(artist) \o <<"_">>
                  \o make_safe_filename(album) \o JpgExt

\* `artist_name and artist_name != "Unknown Artist"`
NamedArtist(artist) == artist # EmptyStr /\ artist # Missing /\ artist # UnknownArtist

\* _try_download_artwork: the target file is returned when it exists;
\* otherwise the catalog is searched once, and either nothing is
\* downloaded (None) or the download is renamed after the album name the
\* catalog answered with
try_download_artwork(target_path, files) ==
    IF target_path \in files
    THEN {[path |-> target_path, files |-> files, searches |-> 0, fresh |-> FALSE]}
    ELSE {[path |-> Missing, files |-> files, searches |-> 1, fresh |-> FALSE]}
         \cup {[path |-> AlbumFile(actual_album),
                files |-> files \cup {AlbumFile(actual_album)},
                searches |-> 1, fresh |-> TRUE] : actual_album \in CatalogAlbums}

\* _download_artwork_for_album: the outcomes of one call, each with the
\* path returned (Missing for None), the files and processed_albums it
\* leaves, the number of catalog searches it issued and whether the file
\* returned was downloaded by this call
download_artwork_for_album(album, artist, files, processed) ==
    IF album = EmptyStr \/ album = UnknownAlbum
    THEN {[path |-> Missing, files |-> files, processed |-> processed,
           searches |-> 0, fresh |-> FALSE]}
    ELSE LET cached ==
                 IF album \notin processed THEN Missing
                 ELSE IF NamedArtist(artist) /\ ArtistAlbumFile(artist, album) \in files
                      THEN ArtistAlbumFile(artist, album)
                 ELSE IF AlbumFile(album) \in files THEN AlbumFile(album)
                 ELSE Missing
             reset == processed \ {album}
             first == IF NamedArtist(artist)
                      THEN try_download_artwork(ArtistAlbumFile(artist, album), files)
                      ELSE {[path |-> Missing, files |-> files, searches |-> 0,
                             fresh |-> FALSE]}
             second == try_download_artwork(AlbumFile(album), files)
         IN IF cached # Missing
            THEN {[path |-> cached, files |-> files, processed |-> processed,
                   searches |-> 0, fresh |-> FALSE]}
            ELSE {[path |-> t.path, files |-> t.files,
                   processed |-> reset \cup {album},
                   searches |-> t.searches, fresh |-> t.fresh] :
                      t \in {x \in first : x.path # Missing}}
                 \cup
                 {[path |-> t.path, files |-> t.files,
                   processed |-> IF t.path # Missing THEN reset \cup {album} ELSE reset,
                   searches |-> u.searches + t.searches, fresh |-> t.fresh] :
                      t \in second, u \in {x \in first : x.path = Missing}}

\* album_metadata_collection[album].append(meta), the key created at its
\* first use; the dict keeps its keys in insertion order
record_metadata(collection, meta) ==
    IF \E k \in DOMAIN collection : collection[k].album = meta.album
    THEN [k \in DOMAIN collection |->
             IF collection[k].album = meta.album
             THEN [collection[k] EXCEPT !.metas = Append(@, meta)]
             ELSE collection[k]]
    ELSE Append(collection, [album |-> meta.album, metas |-> <<meta>>])

\* str.replace(sub, ''): every occurrence removed, from the left
RECURSIVE RemoveAll(_, _)
RemoveAll(s, sub) ==
    IF Len(s) < Len(sub) THEN s
    ELSE IF SubSeq(s, 1, Len(sub)) = sub
         THEN RemoveAll(SubSeq(s, Len(sub) + 1, Len(s)), sub)
         ELSE <<Head(s)>> \o RemoveAll(Tail(s), sub)

\* os.path.basename(artwork_path).replace('.jpg', '')
FileStem(path) == RemoveAll(Basename(path), JpgExt)

\* album_name.lower() in filename.lower() or filename.lower() in album_name.lower()
Related(album, stem) ==
    \/ IsSubstring(Lower(album), Lower(stem))
    \/ IsSubstring(Lower(stem), Lower(album))

\* the position in the collection of the first key related to the file,
\* 0 when no key is
MatchingKey(path, collection) ==
    LET hits == {k \in DOMAIN collection : Related(collection[k].album, FileStem(path))}
    IN IF hits = {} THEN 0
       ELSE CHOOSE k \in hits : \A h \in hits : k <= h

\* all_artworks of _collect_and_select_best_artwork: one entry for every
\* file of the glob result that a key of the collection is related to,
\* scored against the first metadata recorded under that key
collect_artworks(existing, collection) ==
    LET HasKey(path) == MatchingKey(path, collection) # 0
        matched == SelectSeq(existing, HasKey)
        Meta(path) == collection[MatchingKey(path, collection)].metas[1]
    IN [i \in 1..Len(matched) |->
           [path |-> matched[i],
            album |-> Meta(matched[i]).album,
            artist |-> Meta(matched[i]).artist,
            score |-> calculate_artwork_score(matched[i], Meta(matched[i]).album,
                                              Meta(matched[i]).artist,
                                              <<Meta(matched[i])>>)]]

\* glob.glob returns the files in an order the file system chooses
GlobOrders(files) ==
    {order \in [1..Cardinality(files) -> files] :
        \A i, j \in 1..Cardinality(files) : order[i] = order[j] => i = j}

\* before _download_artwork_for_album is called
NoDownload ==
    [called |-> FALSE, album |-> EmptyStr, artist |-> EmptyStr,
     was_processed |-> FALSE, path |-> Missing, searches |-> 0, score |-> 0]

\* the files another run may have left in the output directory
LeftOverFiles == {{}, {AlbumFile(Hi)}}

----------------------------------------------------------------------------
(* Specification of the normalizer: normalize_text applied to every text   *)
(* of at most MaxLen characters, and again to its own result.              *)

\* before any file is handled
NoFile ==
    [album |-> 0, file |-> 0, read |-> FALSE, current |-> EmptyStr,
     matched |-> FALSE, composer_info |-> EmptyStr,
     called_writer |-> FALSE, tag_written |-> FALSE,
     writer_success |-> FALSE, counted |-> FALSE]

SelectIdle ==
    /\ search_results = <<>> /\ target_artist = Missing /\ target_album = Missing
    /\ scored_results = <<>> /\ best_result = 0
    /\ all_artworks = <<>> /\ best_artwork = 0 /\ rpc = "idle"

ScoreIdle ==
    /\ artwork_path = EmptyStr /\ album_name = EmptyStr /\ artist_name = EmptyStr
    /\ metadata_list = <<>> /\ score = 0 /\ spc = "idle"

ComposerIdle ==
    /\ results = <<>> /\ ai = 0 /\ fi = 0 /\ cpc = "idle" /\ cur_credits = <<>>
    /\ total_success = 0 /\ total_songs = 0 /\ visited = {} /\ last = NoFile

ArtIdle ==
    /\ albums_found = <<>> /\ album_i = 0 /\ song_j = 0 /\ apc = "idle"
    /\ output_dir = {} /\ processed_albums = {}
    /\ songs_without_artwork = <<>> /\ album_metadata_collection = <<>>
    /\ gathered = {} /\ download = NoDownload
    /\ existing_artworks = <<>> /\ ranked_artworks = <<>> /\ selected = 0
    /\ skipped = {} /\ embed_calls = {} /\ art_success = 0 /\ art_songs = 0
    /\ downloaded = {} /\ script = "none"

ConfigIdle == config_keys = {} /\ kpc = "idle" /\ attempts = <<>>

Zero == [num |-> 0, den |-> 1]
SimIdle ==
    /\ a_text = EmptyStr /\ b_text = EmptyStr
    /\ similarity_ab = Zero /\ similarity_ba = Zero /\ qpc = "idle"

\* a credit record without any key
NoCredit ==
    [title |-> Missing, track_number |-> Missing, sakushi |-> Missing,
     sakkyoku |-> Missing, henkyoku |-> Missing]

FormatIdle == matching_credit = NoCredit /\ composer_info = EmptyStr /\ fpc = "idle"

ScraperIdle ==
    /\ scraper_method = "none" /\ scraper_pc = 0 /\ events = <<>>
    /\ in_flight = 0 /\ calls_made = 0

QueryIdle ==
    /\ tag_album = EmptyStr /\ tag_artist = EmptyStr /\ search_query = EmptyStr
    /\ query_kind = "none" /\ passed_artist = Missing /\ passed_album = Missing
    /\ ypc = "idle"

NormIdle == text = EmptyStr /\ once = NotYet /\ twice = NotYet /\ npc = "idle"
MatchIdle == track_title = EmptyStr /\ track_credits = <<>> /\ match = NotCalled /\ mpc = "idle"

\* each specification runs one component and leaves the others idle
NormOnly == MatchIdle /\ ComposerIdle /\ ScoreIdle /\ SelectIdle /\ ArtIdle
    /\ ConfigIdle /\ SimIdle /\ FormatIdle /\ QueryIdle /\ ScraperIdle
MatchOnly == NormIdle /\ ComposerIdle /\ ScoreIdle /\ SelectIdle /\ ArtIdle
    /\ ConfigIdle /\ SimIdle /\ FormatIdle /\ QueryIdle /\ ScraperIdle
ComposerOnly == NormIdle /\ MatchIdle /\ ScoreIdle /\ SelectIdle /\ ArtIdle
    /\ ConfigIdle /\ SimIdle /\ FormatIdle /\ QueryIdle /\ ScraperIdle
ScoreOnly == NormIdle /\ MatchIdle /\ ComposerIdle /\ SelectIdle /\ ArtIdle
    /\ ConfigIdle /\ SimIdle /\ FormatIdle /\ QueryIdle /\ ScraperIdle
SelectOnly == NormIdle /\ MatchIdle /\ ComposerIdle /\ ScoreIdle /\ ArtIdle
    /\ ConfigIdle /\ SimIdle /\ FormatIdle /\ QueryIdle /\ ScraperIdle
ArtOnly == NormIdle /\ MatchIdle /\ ComposerIdle /\ ScoreIdle /\ SelectIdle
    /\ ConfigIdle /\ SimIdle /\ FormatIdle /\ QueryIdle /\ ScraperIdle
ConfigOnly == NormIdle /\ MatchIdle /\ ComposerIdle /\ ScoreIdle
    /\ SelectIdle /\ ArtIdle /\ SimIdle /\ FormatIdle /\ QueryIdle
    /\ ScraperIdle
SimOnly == NormIdle /\ MatchIdle /\ ComposerIdle /\ ScoreIdle /\ SelectIdle
    /\ ArtIdle /\ ConfigIdle /\ FormatIdle /\ QueryIdle /\ ScraperIdle
FormatOnly == NormIdle /\ MatchIdle /\ ComposerIdle /\ ScoreIdle
    /\ SelectIdle /\ ArtIdle /\ ConfigIdle /\ SimIdle /\ QueryIdle
    /\ ScraperIdle
QueryOnly == NormIdle /\ MatchIdle /\ ComposerIdle /\ ScoreIdle
    /\ SelectIdle /\ ArtIdle /\ ConfigIdle /\ SimIdle /\ FormatIdle
    /\ ScraperIdle
ScraperOnly == NormIdle /\ MatchIdle /\ ComposerIdle /\ ScoreIdle
    /\ SelectIdle /\ ArtIdle /\ ConfigIdle /\ SimIdle /\ FormatIdle
    /\ QueryIdle

InitNormalize ==
    /\ text \in StringsUpTo(TextChars, MaxLen)
    /\ once = NotYet
    /\ twice = NotYet
    /\ npc = "start"
    /\ NormOnly

Normalize ==
    /\ npc = "start"
    /\ once' = normalize_text(text)
    /\ npc' = "once"
    /\ UNCHANGED <<text, twice, notNormVars>>

NormalizeAgain ==
    /\ npc = "once"
    /\ twice' = normalize_text(once)
    /\ npc' = "twice"
    /\ UNCHANGED <<text, once, notNormVars>>

NextNormalize == Normalize \/ NormalizeAgain

SpecNormalize == InitNormalize /\ [][NextNormalize]_vars

\* C1: normalize is idempotent: normalizing a normalized text changes
\* nothing, also when punctuation sits between or next to whitespace.
C1_NormalizeIdempotent == npc = "twice" => twice = once

----------------------------------------------------------------------------
(* Specification of the track credit matcher: one call of                  *)
(* _find_matching_track_credit on a title and a scraped credit list.       *)

InitMatch ==
    /\ track_title \in TargetTitles
    /\ track_credits \in ListsUpTo(CreditRecords, MaxCredits)
    /\ match = NotCalled
    /\ mpc = "start"
    /\ MatchOnly

FindMatch ==
    /\ mpc = "start"
    /\ match' = find_matching_track_credit(track_title, track_credits)
    /\ mpc' = "done"
    /\ UNCHANGED <<track_title, track_credits, notMatchVars>>

NextMatch == FindMatch

SpecMatch == InitMatch /\ [][NextMatch]_vars

\* what the claims say of one candidate, in the words of the specification
NormTarget == normalize_text(track_title)
NormTitle(i) == normalize_text(Get(track_credits[i].title, EmptyStr))
EqualAt(i) == NormTitle(i) = NormTarget
SimilarAt(i) ==
    /\ NormTitle(i) # EmptyStr
    /\ AtLeastThreshold(calculate_similarity_ratio(NormTarget, NormTitle(i)))
SubstringAt(i) ==
    /\ NormTitle(i) # EmptyStr
    /\ (IsSubstring(NormTarget, NormTitle(i)) \/ IsSubstring(NormTitle(i), NormTarget))
Candidates == DOMAIN track_credits
Called == mpc = "done" /\ track_title # EmptyStr

\* C2 as stated: when no candidate matches exactly and some candidate
\* reaches similarity >= 0.8, the first candidate reaching >= 0.8 is
\* returned, whatever matches by substring before it.
C2_SimilarityBeforeSubstring ==
    (Called /\ (\A i \in Candidates : ~EqualAt(i)) /\ (\E i \in Candidates : SimilarAt(i)))
        => /\ match.index \in Candidates
           /\ SimilarAt(match.index)
           /\ \A j \in 1..(match.index - 1) : ~SimilarAt(j)

\* C2 as amended: when no candidate matches exactly, the first candidate
\* that reaches similarity >= 0.8 or is in a substring relation with the
\* target is returned: the two criteria share one pass over the list.
C2_FirstSimilarOrSubstring ==
    (Called /\ (\A i \in Candidates : ~EqualAt(i))
            /\ (\E i \in Candidates : SimilarAt(i) \/ SubstringAt(i)))
        => /\ match.index \in Candidates
           /\ SimilarAt(match.index) \/ SubstringAt(match.index)
           /\ \A j \in 1..(match.index - 1) : ~SimilarAt(j) /\ ~SubstringAt(j)

\* a substring-only candidate is returned although a later one reaches 0.8
C2_Witness ==
    /\ Called
    /\ \A i \in Candidates : ~EqualAt(i)
    /\ match.index = 1
    /\ ~SimilarAt(1)
    /\ SubstringAt(1)
    /\ Len(track_credits) >= 2
    /\ SimilarAt(2)

\* C3: when some candidate's normalized title equals the normalized target,
\* the first such candidate is returned, wherever it stands in the list and
\* whatever the other candidates' similarity or substring matches.
C3_ExactTierWins ==
    (Called /\ (\E i \in Candidates : EqualAt(i)))
        => /\ match.index \in Candidates
           /\ EqualAt(match.index)
           /\ \A j \in 1..(match.index - 1) : ~EqualAt(j)

\* the exact candidate stands behind one that reaches similarity >= 0.8
C3_Witness ==
    /\ Called
    /\ Len(track_credits) >= 2
    /\ SimilarAt(1)
    /\ ~EqualAt(1)
    /\ EqualAt(2)
    /\ match.index = 2

\* C4: a candidate whose title is missing or empty is returned for a
\* non-empty target only by the track-number loop.
C4_UntitledOnlyByNumber ==
    (Called /\ match.index \in Candidates
            /\ Get(track_credits[match.index].title, EmptyStr) = EmptyStr)
        => match.tier = "number"

\* C28: a non-empty target that normalizes to the empty text and does not
\* start with a digit is matched to nothing, whatever the candidates.
C28_SymbolOnlyTargetUnmatched ==
    (Called /\ NormTarget = EmptyStr /\ LeadingDigits(track_title) = EmptyStr)
        => match.index = 0

\* the raw target starts with a run of exactly n digits
DigitRun(n) ==
    /\ n \in 1..Len(track_title)
    /\ \A k \in 1..n : track_title[k] \in Digits
    /\ n = Len(track_title) \/ track_title[n + 1] \notin Digits

\* the raw track_number of candidate i is the digit run of length n
NumberAt(i, n) == track_credits[i].track_number = SubSeq(track_title, 1, n)

NoTitleTierMatches == \A i \in Candidates : ~EqualAt(i) /\ ~SimilarAt(i) /\ ~SubstringAt(i)

\* C12: when no candidate matches by title (exactly, by similarity or by
\* substring) and the raw target starts with a run of digits, the first
\* candidate whose raw track_number equals that run is returned; without
\* a leading run, or without such a candidate, nothing is returned.
C12_TrackNumberTier ==
    (Called /\ NoTitleTierMatches)
        => IF \E n \in 1..Len(track_title), i \in Candidates : DigitRun(n) /\ NumberAt(i, n)
           THEN \E n \in 1..Len(track_title) :
                   /\ DigitRun(n)
                   /\ match.index \in Candidates
                   /\ NumberAt(match.index, n)
                   /\ \A j \in 1..(match.index - 1) : ~NumberAt(j, n)
           ELSE match.index = 0

\* two candidates carry the track number of the target and neither
\* matches by title: the first of them is returned
C12_Witness ==
    /\ Called
    /\ NoTitleTierMatches
    /\ Len(track_credits) = 2
    /\ DigitRun(1)
    /\ NumberAt(1, 1)
    /\ NumberAt(2, 1)
    /\ match.index = 1

\* C13: with an empty target title, or with an empty candidate list, the
\* call returns nothing.
C13_EmptyArgumentsReturnAbsent ==
    (mpc = "done" /\ (track_title = EmptyStr \/ track_credits = <<>>))
        => match = NoMatch

\* the empty target meets a candidate whose title is empty as well
C13_Witness ==
    /\ mpc = "done"
    /\ track_title = EmptyStr
    /\ \E i \in Candidates : track_credits[i].title = EmptyStr
    /\ match = NoMatch

----------------------------------------------------------------------------
(* Specification of update_album_composers: the albums found are walked    *)
(* in order, the credits of each are scraped once, and every audio file    *)
(* is read, matched and, when there is something new, handed to the tag    *)
(* writer.                                                                 *)

InitComposer ==
    /\ results = <<>> /\ ai = 0 /\ fi = 0 /\ cpc = "start" /\ cur_credits = <<>>
    /\ total_success = 0 /\ total_songs = 0 /\ visited = {} /\ last = NoFile
    /\ ComposerOnly

\* finder.find_albums_by_name returns nothing: return False
FindNoAlbums ==
    /\ cpc = "start"
    /\ cpc' = "done"
    /\ UNCHANGED <<results, ai, fi, cur_credits, total_success, total_songs, visited, last>>
    /\ UNCHANGED notComposerVars

\* finder.find_albums_by_name returns albums, each with at least one file
FindAlbums ==
    /\ cpc = "start"
    /\ \E found \in ListsUpTo(1..MaxFiles, MaxAlbums) \ {<<>>} : results' = found
    /\ ai' = 1
    /\ cpc' = "scrape"
    /\ UNCHANGED <<fi, cur_credits, total_success, total_songs, visited, last>>
    /\ UNCHANGED notComposerVars

\* _get_track_credits_from_tower: the scraped list, or [] when the search
\* finds nothing, the result has no link or the scraper raises
GetTrackCredits ==
    /\ cpc = "scrape"
    /\ \E scraped \in ListsUpTo(ScrapedRecords, MaxCredits) : cur_credits' = scraped
    /\ fi' = 1
    /\ cpc' = "files"
    /\ UNCHANGED <<results, ai, total_success, total_songs, visited, last>>
    /\ UNCHANGED notComposerVars

\* the loop header after the file at (ai, fi): the next file, the next
\* album, or the end of the run
Advance ==
    IF fi < results[ai]
    THEN fi' = fi + 1 /\ UNCHANGED <<ai, cpc, cur_credits>>
    ELSE IF ai < Len(results)
         THEN ai' = ai + 1 /\ cpc' = "scrape" /\ UNCHANGED <<fi, cur_credits>>
         ELSE cpc' = "done" /\ UNCHANGED <<ai, fi, cur_credits>>

Handled(read, current, m, info, called, wrote, reported, counted) ==
    [album |-> ai, file |-> fi, read |-> read, current |-> current,
     matched |-> m.index # 0, composer_info |-> info,
     called_writer |-> called, tag_written |-> wrote,
     writer_success |-> reported, counted |-> counted]

\* extractor.extract_metadata returns None
MetadataUnreadable ==
    /\ cpc = "files"
    /\ visited' = visited \cup {<<ai, fi>>}
    /\ last' = Handled(FALSE, EmptyStr, NoMatch, EmptyStr, FALSE, FALSE, FALSE, FALSE)
    /\ Advance
    /\ UNCHANGED <<results, total_success, total_songs>>
    /\ UNCHANGED notComposerVars

\* `if matching_credit:` the matcher's result is a dict that holds a key
Matches(m) == m.index # 0 /\ ~IsEmptyDict(cur_credits[m.index])

\* no credit matches the title
NoMatchingCredit ==
    /\ cpc = "files"
    /\ \E meta \in FileMetadata :
         LET m == find_matching_track_credit(meta.title, cur_credits)
         IN /\ ~Matches(m)
            /\ last' = Handled(TRUE, meta.composer, NoMatch, EmptyStr, FALSE, FALSE, FALSE, FALSE)
    /\ visited' = visited \cup {<<ai, fi>>}
    /\ total_songs' = total_songs + 1
    /\ Advance
    /\ UNCHANGED <<results, total_success>>
    /\ UNCHANGED notComposerVars

\* a credit matches, but it formats to nothing or to the current composer
NothingToUpdate ==
    /\ cpc = "files"
    /\ \E meta \in FileMetadata :
         LET m == find_matching_track_credit(meta.title, cur_credits)
             info == format_composer_info(cur_credits[m.index])
         IN /\ Matches(m)
            /\ info = EmptyStr \/ info = meta.composer
            /\ last' = Handled(TRUE, meta.composer, m, info, FALSE, FALSE, FALSE, FALSE)
    /\ visited' = visited \cup {<<ai, fi>>}
    /\ total_songs' = total_songs + 1
    /\ Advance
    /\ UNCHANGED <<results, total_success>>
    /\ UNCHANGED notComposerVars

\* a credit matches and formats to something new:
\* self.metadata_writer.update_composer(audio_file, composer_info).  The
\* attribute lookup on AudioMetadataWriter raises AttributeError when the
\* class has no such method; nothing catches it, so the run ends there.
UpdateComposer ==
    /\ cpc = "files"
    /\ \E meta \in FileMetadata :
         LET m == find_matching_track_credit(meta.title, cur_credits)
             info == format_composer_info(cur_credits[m.index])
         IN /\ Matches(m)
            /\ info # EmptyStr /\ info # meta.composer
            /\ IF "update_composer" \in WriterMethods
               THEN \E success \in BOOLEAN :
                      /\ last' = Handled(TRUE, meta.composer, m, info, TRUE, success, success, success)
                      /\ total_success' = total_success + (IF success THEN 1 ELSE 0)
                      /\ Advance
               ELSE /\ last' = Handled(TRUE, meta.composer, m, info, FALSE, FALSE, FALSE, FALSE)
                    /\ cpc' = "crashed"
                    /\ UNCHANGED <<ai, fi, cur_credits, total_success>>
    /\ visited' = visited \cup {<<ai, fi>>}
    /\ total_songs' = total_songs + 1
    /\ UNCHANGED results
    /\ UNCHANGED notComposerVars

NextComposer ==
    \/ FindNoAlbums
    \/ FindAlbums
    \/ GetTrackCredits
    \/ MetadataUnreadable
    \/ NoMatchingCredit
    \/ NothingToUpdate
    \/ UpdateComposer

SpecComposer == InitComposer /\ [][NextComposer]_vars

AllFiles == {<<a, f>> : a \in 1..Len(results), f \in 1..MaxFiles} \cap
            {p \in (1..Len(results)) \X (1..MaxFiles) : p[2] <= results[p[1]]}

\* C5: for every file whose metadata was read, the formatted credit is
\* written to the composer tag through the tag writer exactly when a credit
\* matched and its formatted string is non-empty and differs from the
\* current composer; the update is counted iff the writer reports success.
C5_WriteExactlyWhenNew ==
    (last.album # 0 /\ last.read)
        => /\ last.called_writer <=>
                (last.matched /\ last.composer_info # EmptyStr
                              /\ last.composer_info # last.current)
           /\ last.counted <=> (last.called_writer /\ last.writer_success)

\* C6: the batch is never aborted: when the run has ended, every audio
\* file of every album found has been visited.
C6_EveryFileVisited ==
    cpc \in {"done", "crashed"} => visited = AllFiles

----------------------------------------------------------------------------
(* Specification of the artwork scorer: one call of                        *)
(* _calculate_artwork_score on a candidate file, the target names and the  *)
(* related tracks.                                                         *)

InitScore ==
    /\ artwork_path \in ArtworkPaths
    /\ album_name \in AlbumNames
    /\ artist_name \in ArtistNames
    /\ metadata_list \in ListsUpTo(TrackMetadata, MaxTracks)
    /\ score = 0
    /\ spc = "start"
    /\ ScoreOnly

CalculateScore ==
    /\ spc = "start"
    /\ score' = calculate_artwork_score(artwork_path, album_name, artist_name, metadata_list)
    /\ spc' = "done"
    /\ UNCHANGED <<artwork_path, album_name, artist_name, metadata_list>>
    /\ UNCHANGED notScoreVars

NextScore == CalculateScore

SpecScore == InitScore /\ [][NextScore]_vars

\* the example of the specification: the underscored file name, the album
\* "A Night at the Opera", the artist "Queen" and five tracks by "Queen"
QueenExample ==
    /\ spc = "done"
    /\ Basename(artwork_path) = Basename(QueenUnderscoredJpg)
    /\ album_name = ANightAtTheOpera
    /\ artist_name = Queen
    /\ metadata_list = [i \in 1..5 |-> [artist |-> Queen]]

\* C7 as stated: the example scores 100 + 100 + 50 + 50 = 300.
C7_ExampleScores300 == QueenExample => score = 300

\* C7 as amended: the example scores 100 + 0 + 50 + 50 = 200: the album
\* name, written with spaces, does not occur in the underscored file name,
\* so the album bonus is not given.
C7_ExampleScores200 == QueenExample => score = 200

C7_Witness == QueenExample /\ score = 200

\* the terms of the score, in the words of the specification
InFileName(name) ==
    LET filename == Lower(Basename(artwork_path))
        folded == Lower(name)
    IN \E k \in 0..(Len(filename) - Len(folded)) :
          \A c \in 1..Len(folded) : filename[k + c] = folded[c]
NameBonus(name) == IF name # EmptyStr /\ InFileName(name) THEN 100 ELSE 0
TrackCount == Len(metadata_list)
TrackArtist(i) ==
    IF metadata_list[i].artist = Missing THEN EmptyStr ELSE metadata_list[i].artist
MatchingTracks ==
    Cardinality({i \in 1..TrackCount : Lower(TrackArtist(i)) = Lower(artist_name)})
AllTracksMatch == artist_name # EmptyStr /\ MatchingTracks = TrackCount
MostTracksMatch ==
    artist_name # EmptyStr /\ MatchingTracks # TrackCount
                           /\ 5 * MatchingTracks >= 4 * TrackCount

\* the related tracks with the tracks at positions k and k + 1 exchanged
Exchanged(k) ==
    [i \in 1..TrackCount |->
        IF i = k THEN metadata_list[k + 1]
        ELSE IF i = k + 1 THEN metadata_list[k]
        ELSE metadata_list[i]]

\* C14: the score is the sum of +100 for the artist name in the file name,
\* +100 for the album name in the file name (both non-empty and compared
\* without case), +10 per related track and the consistency bonus; it is
\* never negative and exchanging two related tracks does not change it.
C14_AdditiveRule ==
    spc = "done"
        => /\ score = NameBonus(artist_name) + NameBonus(album_name) + 10 * TrackCount
                       + (IF AllTracksMatch THEN 50 ELSE IF MostTracksMatch THEN 30 ELSE 0)
           /\ score >= 0
           /\ \A k \in 1..(TrackCount - 1) :
                  calculate_artwork_score(artwork_path, album_name, artist_name,
                                          Exchanged(k)) = score

\* both names occur in the file name, one of them in another case, and
\* the related tracks differ from each other
C14_Witness ==
    /\ spc = "done"
    /\ artist_name = Queen
    /\ album_name = ANightAtTheOpera
    /\ artwork_path = QueenSpacedJpg
    /\ TrackCount = 3
    /\ metadata_list[1].artist = QueenUpper
    /\ metadata_list[2].artist = Abba
    /\ metadata_list[3].artist = Queen
    /\ score = 230

\* the consistency bonus: the score without the name and track-count terms
Bonus == score - NameBonus(artist_name) - NameBonus(album_name) - 10 * TrackCount

\* C15: the consistency bonus is 0, 30 or 50: 50 exactly when the artist
\* name is non-empty and every related track carries it, 30 exactly when
\* it is non-empty, not every track carries it and at least 80% do.
C15_BonusTiers ==
    spc = "done"
        => /\ Bonus \in {0, 30, 50}
           /\ Bonus = 50 <=> AllTracksMatch
           /\ Bonus = 30 <=> MostTracksMatch

\* four of five tracks carry the artist name: +30 and 10 x 5
C15_Witness ==
    /\ spc = "done"
    /\ TrackCount = 5
    /\ MatchingTracks = 4
    /\ artist_name = Queen
    /\ NameBonus(album_name) = 0
    /\ NameBonus(artist_name) = 0
    /\ score = 80

\* the tracks whose artist equals the artist name without regard to case
SameArtistTracks ==
    {t \in TrackMetadata : Lower(Get(t.artist, EmptyStr)) = Lower(artist_name)}

\* the score of the same file with one more related track
ScoreWith(track) ==
    calculate_artwork_score(artwork_path, album_name, artist_name,
                            Append(metadata_list, track))

\* C30: one more related track whose artist equals the artist name without
\* regard to case raises the score by at least 10.
C30_MatchingTrackRaisesScore ==
    spc = "done" => \A track \in SameArtistTracks : ScoreWith(track) >= score + 10

\* three of four tracks carry the artist name; a fifth that carries it in
\* another case brings the share to 80% and the score up by 40
C30_Witness ==
    /\ spc = "done"
    /\ artist_name = Queen
    /\ TrackCount = 4
    /\ MatchingTracks = 3
    /\ [artist |-> QueenUpper] \in SameArtistTracks
    /\ ScoreWith([artist |-> QueenUpper]) = score + 40

----------------------------------------------------------------------------
(* Specification of the rankings: one call of _select_best_match on a      *)
(* list of catalog results, or one selection of the best of all_artworks.  *)

InitSelect ==
    /\ \/ /\ rpc = "results"
          /\ search_results \in ListsUpTo(SearchResults, MaxResults)
          /\ target_artist \in TargetArtists
          /\ target_album \in TargetAlbums
          /\ all_artworks = <<>>
       \/ /\ rpc = "artworks"
          /\ all_artworks \in ListsUpTo(ScoredArtworks, MaxResults)
          /\ search_results = <<>>
          /\ target_artist = Missing
          /\ target_album = Missing
    /\ scored_results = <<>>
    /\ best_result = 0
    /\ best_artwork = 0
    /\ SelectOnly

SelectBestMatch ==
    /\ rpc = "results"
    /\ scored_results' = ScoredResults(search_results, target_artist, target_album)
    /\ best_result' = select_best_match(search_results, target_artist, target_album,
                                        scored_results')
    /\ rpc' = "matched"
    /\ UNCHANGED <<search_results, target_artist, target_album, all_artworks, best_artwork>>
    /\ UNCHANGED notSelectVars

SelectBestArtwork ==
    /\ rpc = "artworks"
    /\ best_artwork' = select_best_artwork(all_artworks)
    /\ rpc' = "ranked"
    /\ UNCHANGED <<search_results, target_artist, target_album, all_artworks,
                   scored_results, best_result>>
    /\ UNCHANGED notSelectVars

NextSelect == SelectBestMatch \/ SelectBestArtwork

SpecSelect == InitSelect /\ [][NextSelect]_vars

\* the score of the result at position i: the one the ranking computed,
\* and calculate_score's when the function returned without ranking
ResultScore(i) ==
    IF scored_results # <<>> THEN scored_results[i]
    ELSE calculate_score(search_results[i], target_artist, target_album)

\* the winner at position w of a list of n scored items: an item of the
\* list, of maximal score, before which no item reaches that score
StableMax(w, n, scoreOf(_)) ==
    /\ w \in 1..n
    /\ \A j \in 1..n : scoreOf(j) <= scoreOf(w)
    /\ \A j \in 1..(w - 1) : scoreOf(j) < scoreOf(w)

ArtworkScore(i) == all_artworks[i].score

\* C8: every ranking over a non-empty list returns one element of the list,
\* of maximal score, and the earliest of those that tie for the maximum.
C8_FirstMaximumWins ==
    /\ (rpc = "matched" /\ search_results # <<>>)
          => StableMax(best_result, Len(search_results), ResultScore)
    /\ (rpc = "ranked" /\ all_artworks # <<>>)
          => StableMax(best_artwork, Len(all_artworks), ArtworkScore)

\* two catalog results tie for the maximum behind a lower one
C8_Witness ==
    /\ rpc = "matched"
    /\ Len(search_results) = 3
    /\ ResultScore(1) < ResultScore(2)
    /\ ResultScore(3) = ResultScore(2)
    /\ best_result = 2

Unusable(result) == result.artistName = Missing /\ result.collectionName = Missing

\* C9: when the results are ranked against a target, a result that has
\* neither artistName nor collectionName is never returned as the best
\* match while the list holds a result with both.
C9_UnusableResultSkipped ==
    (rpc = "matched" /\ (Given(target_artist) \/ Given(target_album))
                     /\ \E i \in DOMAIN search_results :
                            /\ search_results[i].artistName # Missing
                            /\ search_results[i].collectionName # Missing)
        => /\ best_result \in DOMAIN search_results
           /\ ~Unusable(search_results[best_result])

\* the results whose artistName and collectionName both equal the targets
\* without regard to case
ExactOnBoth ==
    {i \in DOMAIN search_results :
        /\ search_results[i].artistName # Missing
        /\ search_results[i].collectionName # Missing
        /\ Lower(search_results[i].artistName) = Lower(target_artist)
        /\ Lower(search_results[i].collectionName) = Lower(target_album)}

\* C29: when both targets are given and some result equals both without
\* regard to case, the result returned is the first of those that do: no
\* result that matches in part or by its words is returned instead.
C29_ExactOnBothWins ==
    (rpc = "matched" /\ Given(target_artist) /\ Given(target_album)
                     /\ ExactOnBoth # {})
        => /\ best_result \in ExactOnBoth
           /\ \A i \in ExactOnBoth : best_result <= i

\* a result that contains the album target comes before two that equal
\* both targets
C29_Witness ==
    /\ rpc = "matched"
    /\ target_artist = QueenUpper
    /\ target_album = Gold
    /\ Len(search_results) = 3
    /\ search_results[1] = [artistName |-> Queen, collectionName |-> GoldLive]
    /\ ExactOnBoth = {2, 3}
    /\ best_result = 2

\* C20: ranking an empty list returns nothing: _select_best_match on no
\* catalog result, whatever the targets, and the selection of the best
\* artwork when no candidate was collected.
C20_EmptyListYieldsAbsent ==
    /\ (rpc = "matched" /\ search_results = <<>>) => best_result = 0
    /\ (rpc = "ranked" /\ all_artworks = <<>>) => best_artwork = 0

\* the empty list of catalog results ranked without any target
C20_Witness ==
    /\ rpc = "matched"
    /\ search_results = <<>>
    /\ target_artist = Missing
    /\ target_album = Missing
    /\ best_result = 0

----------------------------------------------------------------------------
(* Specification of the artwork batch of update_album_artworks.py: the     *)
(* albums found are walked in order, an artwork is downloaded for every    *)
(* song without one, the embedding phase of each album ranks the files of  *)
(* the output directory, and the directory is emptied after the run.       *)

InitArtworks ==
    /\ albums_found = <<>> /\ album_i = 0 /\ song_j = 0 /\ apc = "start"
    /\ output_dir \in LeftOverFiles
    /\ processed_albums = {}
    /\ songs_without_artwork = <<>> /\ album_metadata_collection = <<>>
    /\ gathered = {} /\ download = NoDownload
    /\ existing_artworks = <<>> /\ ranked_artworks = <<>> /\ selected = 0
    /\ skipped = {} /\ embed_calls = {} /\ art_success = 0 /\ art_songs = 0
    /\ downloaded = {}
    /\ script \in {"update", "add"}
    /\ ArtOnly

\* finder.find_albums_by_name returns nothing: return False
ArtFindNoAlbums ==
    /\ script = "update"
    /\ apc = "start"
    /\ apc' = "returned"
    /\ UNCHANGED <<albums_found, album_i, song_j, output_dir, processed_albums,
                   songs_without_artwork, album_metadata_collection, gathered,
                   download, existing_artworks, ranked_artworks, selected,
                   skipped, embed_calls, art_success, art_songs, downloaded>>
    /\ UNCHANGED script
    /\ UNCHANGED notArtVars

\* finder.find_albums_by_name returns albums, each with at least one file
ArtFindAlbums ==
    /\ script = "update"
    /\ apc = "start"
    /\ \E found \in ListsUpTo(1..MaxFiles, MaxAlbums) \ {<<>>} : albums_found' = found
    /\ album_i' = 1
    /\ song_j' = 1
    /\ apc' = "songs"
    /\ UNCHANGED <<output_dir, processed_albums, songs_without_artwork,
                   album_metadata_collection, gathered, download,
                   existing_artworks, ranked_artworks, selected, skipped,
                   embed_calls, art_success, art_songs, downloaded>>
    /\ UNCHANGED script
    /\ UNCHANGED notArtVars

AtSong == apc = "songs" /\ song_j <= albums_found[album_i]
SongsDone == apc = "songs" /\ song_j > albums_found[album_i]
ThisSong == <<album_i, song_j>>

\* extract_metadata returns None
SongUnreadable ==
    /\ script = "update"
    /\ AtSong
    /\ song_j' = song_j + 1
    /\ UNCHANGED <<albums_found, album_i, apc, output_dir, processed_albums,
                   songs_without_artwork, album_metadata_collection, gathered,
                   download, existing_artworks, ranked_artworks, selected,
                   skipped, embed_calls, art_success, art_songs, downloaded>>
    /\ UNCHANGED script
    /\ UNCHANGED notArtVars

\* a variant that counts the song before it skips it
SongHasArtworkCounted ==
    /\ script = "update"
    /\ AtSong
    /\ skipped' = skipped \cup {ThisSong}
    /\ art_songs' = art_songs + 1
    /\ song_j' = song_j + 1
    /\ UNCHANGED <<albums_found, album_i, apc, output_dir, processed_albums,
                   songs_without_artwork, album_metadata_collection, gathered,
                   download, existing_artworks, ranked_artworks, selected,
                   embed_calls, art_success, downloaded>>
    /\ UNCHANGED script
    /\ UNCHANGED notArtVars

\* metadata['has_artwork']: continue
SongHasArtwork ==
    /\ script = "update"
    /\ AtSong
    /\ skipped' = skipped \cup {ThisSong}
    /\ song_j' = song_j + 1
    /\ UNCHANGED <<albums_found, album_i, apc, output_dir, processed_albums,
                   songs_without_artwork, album_metadata_collection, gathered,
                   download, existing_artworks, ranked_artworks, selected,
                   embed_calls, art_success, art_songs, downloaded>>
    /\ UNCHANGED script
    /\ UNCHANGED notArtVars

\* a song without artwork: it is counted and recorded, an artwork is
\* downloaded for its album and artist tags, and its metadata is recorded
\* under its album tag
CollectSong ==
    /\ script = "update"
    /\ AtSong
    /\ \E album \in AlbumTags, artist \in ArtistTags :
         \E out \in download_artwork_for_album(album, artist, output_dir, processed_albums) :
            LET meta == [album |-> album, artist |-> artist, file |-> ThisSong]
            IN /\ output_dir' = out.files
               /\ processed_albums' = out.processed
               /\ gathered' = IF out.path # Missing THEN gathered \cup {out.path}
                              ELSE gathered
               /\ downloaded' = IF out.fresh THEN downloaded \cup {out.path}
                                ELSE downloaded
               /\ download' =
                     [called |-> TRUE, album |-> album, artist |-> artist,
                      was_processed |-> album \in processed_albums,
                      path |-> out.path, searches |-> out.searches,
                      score |-> IF out.path = Missing THEN 0
                                ELSE calculate_artwork_score(out.path, album, artist,
                                                             <<meta>>)]
               /\ album_metadata_collection' =
                     record_metadata(album_metadata_collection, meta)
    /\ art_songs' = art_songs + 1
    /\ songs_without_artwork' = Append(songs_without_artwork, ThisSong)
    /\ song_j' = song_j + 1
    /\ UNCHANGED <<albums_found, album_i, apc, existing_artworks, ranked_artworks,
                   selected, skipped, embed_calls, art_success>>
    /\ UNCHANGED script
    /\ UNCHANGED notArtVars

\* `if songs_without_artwork and album_metadata_collection` fails
SkipEmbedding ==
    /\ script = "update"
    /\ SongsDone
    /\ songs_without_artwork = <<>> \/ album_metadata_collection = <<>>
    /\ apc' = "album_done"
    /\ UNCHANGED <<albums_found, album_i, song_j, output_dir, processed_albums,
                   songs_without_artwork, album_metadata_collection, gathered,
                   download, existing_artworks, ranked_artworks, selected,
                   skipped, embed_calls, art_success, art_songs, downloaded>>
    /\ UNCHANGED script
    /\ UNCHANGED notArtVars

\* the embedding phase finds no file related to a key of the collection
NoArtworkFound ==
    /\ script = "update"
    /\ SongsDone
    /\ songs_without_artwork # <<>> /\ album_metadata_collection # <<>>
    /\ \E order \in GlobOrders(output_dir) :
          /\ collect_artworks(order, album_metadata_collection) = <<>>
          /\ existing_artworks' = order
    /\ ranked_artworks' = <<>>
    /\ selected' = 0
    /\ apc' = "album_done"
    /\ UNCHANGED <<albums_found, album_i, song_j, output_dir, processed_albums,
                   songs_without_artwork, album_metadata_collection, gathered,
                   download, skipped, embed_calls, art_success, art_songs, downloaded>>
    /\ UNCHANGED script
    /\ UNCHANGED notArtVars

\* the embedding phase selects the best of all_artworks and calls
\* embed_artwork with it on every song of songs_without_artwork
EmbedBestArtwork ==
    /\ script = "update"
    /\ SongsDone
    /\ songs_without_artwork # <<>> /\ album_metadata_collection # <<>>
    /\ \E order \in GlobOrders(output_dir) :
          /\ collect_artworks(order, album_metadata_collection) # <<>>
          /\ existing_artworks' = order
          /\ ranked_artworks' = collect_artworks(order, album_metadata_collection)
    /\ selected' = select_best_artwork(ranked_artworks')
    /\ \E succeeded \in SUBSET DOMAIN songs_without_artwork :
          /\ embed_calls' =
                {[file |-> songs_without_artwork[k],
                  path |-> ranked_artworks'[selected'].path,
                  embed_success |-> k \in succeeded] :
                     k \in DOMAIN songs_without_artwork}
          /\ art_success' = art_success + Cardinality(succeeded)
    /\ apc' = "album_done"
    /\ UNCHANGED <<albums_found, album_i, song_j, output_dir, processed_albums,
                   songs_without_artwork, album_metadata_collection, gathered,
                   download, skipped, art_songs, downloaded>>
    /\ UNCHANGED script
    /\ UNCHANGED notArtVars

\* the next album starts with empty collections
NextAlbum ==
    /\ script = "update"
    /\ apc = "album_done"
    /\ album_i < Len(albums_found)
    /\ album_i' = album_i + 1
    /\ song_j' = 1
    /\ songs_without_artwork' = <<>>
    /\ album_metadata_collection' = <<>>
    /\ gathered' = {}
    /\ existing_artworks' = <<>>
    /\ ranked_artworks' = <<>>
    /\ selected' = 0
    /\ skipped' = {}
    /\ embed_calls' = {}
    /\ apc' = "songs"
    /\ UNCHANGED <<albums_found, output_dir, processed_albums, download,
                   art_success, art_songs, downloaded>>
    /\ UNCHANGED script
    /\ UNCHANGED notArtVars

\* after the last album: return total_success > 0
ReturnFromBatch ==
    /\ script = "update"
    /\ apc = "album_done"
    /\ album_i = Len(albums_found)
    /\ apc' = "returned"
    /\ UNCHANGED <<albums_found, album_i, song_j, output_dir, processed_albums,
                   songs_without_artwork, album_metadata_collection, gathered,
                   download, existing_artworks, ranked_artworks, selected,
                   skipped, embed_calls, art_success, art_songs, downloaded>>
    /\ UNCHANGED script
    /\ UNCHANGED notArtVars

\* cleanup_artwork_files, called once after download_album_artworks
CleanupArtworkFiles ==
    /\ script = "update"
    /\ apc = "returned"
    /\ output_dir' = {}
    /\ apc' = "end"
    /\ UNCHANGED <<albums_found, album_i, song_j, processed_albums,
                   songs_without_artwork, album_metadata_collection, gathered,
                   download, existing_artworks, ranked_artworks, selected,
                   skipped, embed_calls, art_success, art_songs, downloaded>>
    /\ UNCHANGED script
    /\ UNCHANGED notArtVars

----------------------------------------------------------------------------
(* The batch of add_album_artworks.py: every song without artwork has an   *)
(* artwork downloaded for its album tag and embedded at once.              *)

\* _download_artwork_for_album of add_album_artworks.py: the file is named
\* after the album tag, whatever album the catalog answered with
add_download_artwork_for_album(album, files, processed) ==
    IF album = EmptyStr \/ album = UnknownAlbum
    THEN {[path |-> Missing, files |-> files, processed |-> processed,
           searches |-> 0, fresh |-> FALSE]}
    ELSE IF album \in processed
    THEN {[path |-> IF AlbumFile(album) \in files THEN AlbumFile(album) ELSE Missing,
           files |-> files, processed |-> processed, searches |-> 0, fresh |-> FALSE]}
    ELSE IF AlbumFile(album) \in files
    THEN {[path |-> AlbumFile(album), files |-> files,
           processed |-> processed \cup {album}, searches |-> 0, fresh |-> FALSE]}
    ELSE {[path |-> Missing, files |-> files, processed |-> processed,
           searches |-> 1, fresh |-> FALSE],
          [path |-> AlbumFile(album), files |-> files \cup {AlbumFile(album)},
           processed |-> processed \cup {album}, searches |-> 1, fresh |-> TRUE]}

ArtUnchangedByAdd ==
    UNCHANGED <<songs_without_artwork, album_metadata_collection, gathered,
                existing_artworks, ranked_artworks, selected, script>>

\* finder.find_albums_by_name returns nothing: return False
AddFindNoAlbums ==
    /\ script = "add"
    /\ apc = "start"
    /\ apc' = "returned"
    /\ UNCHANGED <<albums_found, album_i, song_j, output_dir, processed_albums,
                   download, skipped, embed_calls, art_success, art_songs, downloaded>>
    /\ ArtUnchangedByAdd
    /\ UNCHANGED notArtVars

AddFindAlbums ==
    /\ script = "add"
    /\ apc = "start"
    /\ \E found \in ListsUpTo(1..MaxFiles, MaxAlbums) \ {<<>>} : albums_found' = found
    /\ album_i' = 1
    /\ song_j' = 1
    /\ apc' = "songs"
    /\ UNCHANGED <<output_dir, processed_albums, download, skipped, embed_calls,
                   art_success, art_songs, downloaded>>
    /\ ArtUnchangedByAdd
    /\ UNCHANGED notArtVars

\* extract_metadata returns None
AddSongUnreadable ==
    /\ script = "add"
    /\ AtSong
    /\ song_j' = song_j + 1
    /\ UNCHANGED <<albums_found, album_i, apc, output_dir, processed_albums,
                   download, skipped, embed_calls, art_success, art_songs, downloaded>>
    /\ ArtUnchangedByAdd
    /\ UNCHANGED notArtVars

\* metadata['has_artwork']: continue
AddSongHasArtwork ==
    /\ script = "add"
    /\ AtSong
    /\ skipped' = skipped \cup {ThisSong}
    /\ song_j' = song_j + 1
    /\ UNCHANGED <<albums_found, album_i, apc, output_dir, processed_albums,
                   download, embed_calls, art_success, art_songs, downloaded>>
    /\ ArtUnchangedByAdd
    /\ UNCHANGED notArtVars

\* a song without artwork: it is counted, an artwork is downloaded for its
\* album tag and, when there is one, embedded into the song
AddSong ==
    /\ script = "add"
    /\ AtSong
    /\ art_songs' = art_songs + 1
    /\ \E album \in AlbumTags :
         \E out \in add_download_artwork_for_album(album, output_dir, processed_albums) :
            /\ output_dir' = out.files
            /\ processed_albums' = out.processed
            /\ downloaded' = IF out.fresh THEN downloaded \cup {out.path} ELSE downloaded
            /\ download' =
                  [called |-> TRUE, album |-> album, artist |-> EmptyStr,
                   was_processed |-> album \in processed_albums,
                   path |-> out.path, searches |-> out.searches, score |-> 0]
            /\ IF out.path = Missing
               THEN UNCHANGED <<embed_calls, art_success>>
               ELSE \E embed_success \in BOOLEAN :
                       /\ embed_calls' = embed_calls \cup
                             {[file |-> ThisSong, path |-> out.path,
                               embed_success |-> embed_success]}
                       /\ art_success' = art_success + (IF embed_success THEN 1 ELSE 0)
    /\ song_j' = song_j + 1
    /\ UNCHANGED <<albums_found, album_i, apc, skipped>>
    /\ ArtUnchangedByAdd
    /\ UNCHANGED notArtVars

\* the songs of the album are exhausted: the next album
AddNextAlbum ==
    /\ script = "add"
    /\ SongsDone
    /\ album_i < Len(albums_found)
    /\ album_i' = album_i + 1
    /\ song_j' = 1
    /\ UNCHANGED <<albums_found, apc, output_dir, processed_albums, download,
                   skipped, embed_calls, art_success, art_songs, downloaded>>
    /\ ArtUnchangedByAdd
    /\ UNCHANGED notArtVars

\* after the last album: return total_success > 0
AddReturnFromBatch ==
    /\ script = "add"
    /\ SongsDone
    /\ album_i = Len(albums_found)
    /\ apc' = "returned"
    /\ UNCHANGED <<albums_found, album_i, song_j, output_dir, processed_albums,
                   download, skipped, embed_calls, art_success, art_songs, downloaded>>
    /\ ArtUnchangedByAdd
    /\ UNCHANGED notArtVars

NextArtworks ==
    \/ ArtFindNoAlbums
    \/ ArtFindAlbums
    \/ SongUnreadable
    \/ SongHasArtwork
    \/ CollectSong
    \/ SkipEmbedding
    \/ NoArtworkFound
    \/ EmbedBestArtwork
    \/ NextAlbum
    \/ ReturnFromBatch
    \/ CleanupArtworkFiles
    \/ AddFindNoAlbums
    \/ AddFindAlbums
    \/ AddSongUnreadable
    \/ AddSongHasArtwork
    \/ AddSong
    \/ AddNextAlbum
    \/ AddReturnFromBatch

SpecArtworks == InitArtworks /\ [][NextArtworks]_vars

\* C10: a file downloaded during the run is ranked in the embedding phase
\* of an album, or embedded into its songs, only if
\* _download_artwork_for_scoring returned it while that album was
\* processed: no file gathered for an earlier album of the run is a
\* candidate of a later album.
C10_OnlyThisAlbumsCandidates ==
    apc = "album_done"
        => /\ \A k \in DOMAIN ranked_artworks :
                  ranked_artworks[k].path \in downloaded
                      => ranked_artworks[k].path \in gathered
           /\ \A call \in embed_calls :
                  call.path \in downloaded => call.path \in gathered

\* the songs recorded as lacking artwork
SongsToEmbed == {songs_without_artwork[k] : k \in DOMAIN songs_without_artwork}

\* C22: in both scripts a song that already has artwork is skipped: it is
\* never among the songs to embed and embed_artwork is never called on it,
\* and the step that skips it counts nothing, downloads nothing and
\* embeds nothing.
C22_SongWithArtworkSkipped ==
    /\ [](\A song \in skipped :
              /\ song \notin SongsToEmbed
              /\ \A call \in embed_calls : call.file # song)
    /\ [][(skipped' # skipped /\ skipped' # {})
              => UNCHANGED <<art_songs, art_success, download, output_dir,
                             processed_albums, downloaded, embed_calls,
                             songs_without_artwork, album_metadata_collection>>]_vars

\* update_album_artworks.py skipped the first song of an album and embedded
\* an artwork into the second, the only one counted
C22_Witness ==
    /\ script = "update"
    /\ apc = "album_done"
    /\ <<1, 1>> \in skipped
    /\ \E call \in embed_calls : call.file = <<1, 2>>
    /\ art_songs = 1

\* C25: when _download_artwork_for_scoring returned a file for at least
\* one song of the album, the embedding phase selects an artwork and calls
\* embed_artwork on every song recorded as lacking artwork.
C25_DownloadedArtworkIsEmbedded ==
    (script = "update" /\ apc = "album_done" /\ gathered # {})
        => /\ selected # 0
           /\ \A song \in SongsToEmbed : \E call \in embed_calls : call.file = song

\* the album tag recorded for a song of the current album
AlbumTagOf(song) ==
    LET key == CHOOSE k \in DOMAIN album_metadata_collection :
                   \E n \in DOMAIN album_metadata_collection[k].metas :
                       album_metadata_collection[k].metas[n].file = song
    IN album_metadata_collection[key].album

\* C26: embed_artwork is called with a file on a song only if the name of
\* the file and the album tag of that song contain one another, without
\* regard to case.
C26_EmbeddedFileMatchesSongTag ==
    (script = "update" /\ apc = "album_done")
        => \A call \in embed_calls :
              Related(AlbumTagOf(call.file), FileStem(call.path))

\* C27: when a call of _download_artwork_for_album has returned a file for
\* an album name, so that the name is in processed_albums and the file is
\* in the output directory, the next call for the same name returns an
\* existing file without searching the catalog.
C27_ProcessedAlbumIsCached ==
    [][(/\ download.called
        /\ download.path # Missing
        /\ download.path \in output_dir
        /\ download.album \in processed_albums
        /\ art_songs' = art_songs + 1
        /\ download'.album = download.album)
           => /\ download'.searches = 0
              /\ download'.path # Missing
              /\ download'.path \in output_dir']_vars

----------------------------------------------------------------------------
(* Specification of the start of update_album_artworks.py: the             *)
(* configuration file has been loaded with some of the required keys, the  *)
(* downloader is constructed, and every artwork download reads the         *)
(* quality and the country from the configuration.                         *)

\* the keys the getters of Config read
RequiredKeys ==
    {"itunes.media_path", "artwork.output_dir", "artwork.quality", "itunes.api_country"}

MaxAttempts == 3

InitConfig ==
    /\ config_keys \in SUBSET RequiredKeys
    /\ kpc = "start"
    /\ attempts = <<>>
    /\ ConfigOnly

\* AlbumArtworkBatchDownloader(): get_artwork_output_dir, then
\* iTunesAlbumFinder() and its get_itunes_media_path; the KeyError of
\* either is not caught and ends the process
ConstructDownloader ==
    /\ kpc = "start"
    /\ kpc' = IF {"artwork.output_dir", "itunes.media_path"} \subseteq config_keys
              THEN "constructed" ELSE "fatal"
    /\ UNCHANGED <<config_keys, attempts>>
    /\ UNCHANGED notConfigVars

\* download_album_artworks finds no album and returns False
NoAlbumsToProcess ==
    /\ kpc = "constructed"
    /\ kpc' = "end"
    /\ UNCHANGED <<config_keys, attempts>>
    /\ UNCHANGED notConfigVars

\* download_album_artworks starts on the albums found
ProcessAlbums ==
    /\ kpc = "constructed"
    /\ kpc' = "processing"
    /\ UNCHANGED <<config_keys, attempts>>
    /\ UNCHANGED notConfigVars

\* one call of _try_download_artwork: the target file exists and is
\* returned; or the quality and the country are read inside the try
\* block, where a KeyError is caught, printed and turned into None; or the
\* catalog is searched and the download fails or succeeds
TryDownloadArtwork ==
    /\ kpc = "processing"
    /\ Len(attempts) < MaxAttempts
    /\ \E outcome \in IF {"artwork.quality", "itunes.api_country"} \subseteq config_keys
                       THEN {"exists", "none", "downloaded"}
                       ELSE {"exists", "key_error"} :
          attempts' = Append(attempts, outcome)
    /\ UNCHANGED <<config_keys, kpc>>
    /\ UNCHANGED notConfigVars

\* download_album_artworks returns and the process ends
ProcessingDone ==
    /\ kpc = "processing"
    /\ kpc' = "end"
    /\ UNCHANGED <<config_keys, attempts>>
    /\ UNCHANGED notConfigVars

NextConfig ==
    \/ ConstructDownloader
    \/ NoAlbumsToProcess
    \/ ProcessAlbums
    \/ TryDownloadArtwork
    \/ ProcessingDone

SpecConfig == InitConfig /\ [][NextConfig]_vars

\* C11: the absence of a required configuration key is fatal at the start
\* of the process: it never surfaces as an error that is caught and logged
\* while the albums are processed.
C11_MissingKeyFatalAtStart ==
    RequiredKeys \ config_keys # {}
        => \A i \in DOMAIN attempts : attempts[i] # "key_error"

----------------------------------------------------------------------------
(* Specification of the similarity: _calculate_similarity_ratio applied to *)
(* two texts of at most MaxLen characters, in both orders.                 *)

SimilarityChars == {"a", "b", "c"}

InitSimilarity ==
    /\ a_text \in StringsUpTo(SimilarityChars, MaxLen)
    /\ b_text \in StringsUpTo(SimilarityChars, MaxLen)
    /\ similarity_ab = Zero
    /\ similarity_ba = Zero
    /\ qpc = "start"
    /\ SimOnly

CalculateSimilarity ==
    /\ qpc = "start"
    /\ similarity_ab' = calculate_similarity_ratio(a_text, b_text)
    /\ similarity_ba' = calculate_similarity_ratio(b_text, a_text)
    /\ qpc' = "done"
    /\ UNCHANGED <<a_text, b_text>>
    /\ UNCHANGED notSimVars

NextSimilarity == CalculateSimilarity

SpecSimilarity == InitSimilarity /\ [][NextSimilarity]_vars

\* two ratios are the same number
SameRatio(r, q) == r.num * q.den = q.num * r.den

\* C16: the similarity of a to b is the similarity of b to a.
C16_Symmetric ==
    qpc = "done" => SameRatio(similarity_ab, similarity_ba)

\* two texts of different lengths that share one of their characters
C16_Witness ==
    /\ qpc = "done"
    /\ a_text = <<"a", "b">>
    /\ b_text = <<"b", "c", "c">>
    /\ similarity_ab.num > 0
    /\ SameRatio(similarity_ab, similarity_ba)

\* the distinct characters of the two texts and their lengths
DistinctA == {a_text[i] : i \in 1..Len(a_text)}
DistinctB == {b_text[i] : i \in 1..Len(b_text)}
Shorter == IF Len(a_text) <= Len(b_text) THEN Len(a_text) ELSE Len(b_text)
Longer == IF Len(a_text) <= Len(b_text) THEN Len(b_text) ELSE Len(a_text)

\* the text with the characters at positions k and k + 1 exchanged
Swapped(t, k) ==
    [i \in 1..Len(t) |-> IF i = k THEN t[k + 1] ELSE IF i = k + 1 THEN t[k] ELSE t[i]]

\* C17: for non-empty texts the similarity is
\* (|A n B| / |A u B| + min(len) / max(len)) / 2 over the sets A and B of
\* their distinct characters; it lies in [0, 1] and does not change when
\* the characters of a text are reordered.
C17_JaccardAndLength ==
    (qpc = "done" /\ a_text # EmptyStr /\ b_text # EmptyStr)
        => /\ similarity_ab.den > 0
           /\ similarity_ab.num * (2 * Cardinality(DistinctA \cup DistinctB) * Longer)
                = (Cardinality(DistinctA \cap DistinctB) * Longer
                      + Shorter * Cardinality(DistinctA \cup DistinctB))
                  * similarity_ab.den
           /\ 0 <= similarity_ab.num
           /\ similarity_ab.num <= similarity_ab.den
           /\ \A k \in 1..(Len(a_text) - 1) :
                 SameRatio(calculate_similarity_ratio(Swapped(a_text, k), b_text),
                           similarity_ab)
           /\ \A k \in 1..(Len(b_text) - 1) :
                 SameRatio(calculate_similarity_ratio(a_text, Swapped(b_text, k)),
                           similarity_ab)

\* one of three distinct characters is shared and the lengths are 2 and 3:
\* (1/3 + 2/3) / 2 = 1/2
C17_Witness ==
    /\ qpc = "done"
    /\ a_text = <<"b", "a">>
    /\ b_text = <<"a", "c", "a">>
    /\ 2 * similarity_ab.num = similarity_ab.den

\* C18: the similarity of a non-empty text to itself is 1.
C18_SelfSimilarityIsOne ==
    (qpc = "done" /\ a_text = b_text /\ a_text # EmptyStr)
        => similarity_ab.num = similarity_ab.den

\* a text that repeats a character, compared with itself
C18_Witness ==
    /\ qpc = "done"
    /\ a_text = <<"a", "a", "b">>
    /\ b_text = a_text
    /\ similarity_ab.num = similarity_ab.den
    /\ similarity_ab.den > 0

\* C19: the similarity is 0 whenever one of the two texts is empty, the
\* two empty texts included.
C19_EmptyTextGivesZero ==
    (qpc = "done" /\ (a_text = EmptyStr \/ b_text = EmptyStr))
        => similarity_ab.num = 0 /\ similarity_ba.num = 0

\* the two empty texts
C19_Witness ==
    /\ qpc = "done"
    /\ a_text = EmptyStr
    /\ b_text = EmptyStr
    /\ similarity_ab.num = 0
    /\ similarity_ab.den > 0

----------------------------------------------------------------------------
(* Specification of the formatter: one call of _format_composer_info on a  *)
(* credit record that holds any of its keys.                                *)

\* credit records: the title and the track number, and the three labels,
\* each absent, empty or with a name
FormatCredits ==
    [title : {Missing, <<"a">>}, track_number : {Missing, <<"1">>},
     sakushi : {Missing, EmptyStr, <<"x">>},
     sakkyoku : {Missing, <<"x">>, <<"y">>},
     henkyoku : {Missing, <<"y">>}]

InitFormat ==
    /\ matching_credit \in FormatCredits
    /\ composer_info = EmptyStr
    /\ fpc = "start"
    /\ FormatOnly

FormatComposerInfo ==
    /\ fpc = "start"
    /\ composer_info' = format_composer_info(matching_credit)
    /\ fpc' = "done"
    /\ UNCHANGED matching_credit
    /\ UNCHANGED notFormatVars

NextFormat == FormatComposerInfo

SpecFormat == InitFormat /\ [][NextFormat]_vars

\* the three labels in their order, and those of them the record holds
Labels == <<"SAKUSHI", "SAKKYOKU", "HENKYOKU">>
LabelValue(label) ==
    IF label = "SAKUSHI" THEN matching_credit.sakushi
    ELSE IF label = "SAKKYOKU" THEN matching_credit.sakkyoku
    ELSE matching_credit.henkyoku
IsPresent(label) == LabelValue(label) # Missing
PresentLabels == SelectSeq(Labels, IsPresent)

\* the entries "label: value" of the first n labels present, joined by "/"
Joined(n) ==
    LET F[i \in 0..n] ==
            IF i = 0 THEN <<>>
            ELSE (IF i = 1 THEN <<>> ELSE F[i - 1] \o <<"/">>)
                 \o <<PresentLabels[i], ":", " ">> \o LabelValue(PresentLabels[i])
    IN F[n]

\* C21: the text is made of the entries "label: value" of those of the
\* three labels that the record holds, in the fixed order lyrics, music,
\* arrangement, joined by "/"; it is empty when the record holds none of
\* them, and the other keys of the record have no part in it.
C21_LabelsPresentInOrder ==
    fpc = "done"
        => /\ composer_info = Joined(Len(PresentLabels))
           /\ PresentLabels = <<>> => composer_info = EmptyStr
           /\ \A other \in FormatCredits :
                 (/\ other.sakushi = matching_credit.sakushi
                  /\ other.sakkyoku = matching_credit.sakkyoku
                  /\ other.henkyoku = matching_credit.henkyoku)
                     => format_composer_info(other) = composer_info

\* a record with a title, without lyrics, with music and arrangement
C21_Witness ==
    /\ fpc = "done"
    /\ matching_credit.title # Missing
    /\ matching_credit.sakushi = Missing
    /\ matching_credit.sakkyoku = <<"x">>
    /\ matching_credit.henkyoku = <<"y">>
    /\ composer_info = <<"SAKKYOKU", ":", " ", "x", "/", "HENKYOKU", ":", " ", "y">>

----------------------------------------------------------------------------
(* Specification of the search queries of update_album_artworks.py: the    *)
(* two calls _download_artwork_for_album makes of _try_download_artwork,   *)
(* and the targets each call hands to the fetcher for the ranking.         *)

MaxQueryLen == 3

\* album tags of one to MaxQueryLen characters, without outer spaces
QueryAlbums ==
    {s \in StringsUpTo({"a", "b", " "}, MaxQueryLen) : s # EmptyStr /\ Strip(s) = s}
QueryArtists == {Missing, Q, UnknownArtist}

\* search_query.split(' ', 1): the text before the first space and the
\* text after it, or the whole text when it holds no space
split_once(s) ==
    LET spaces == {i \in 1..Len(s) : s[i] = " "}
    IN IF spaces = {} THEN <<s>>
       ELSE LET k == CHOOSE i \in spaces : \A j \in spaces : i <= j
            IN <<SubSeq(s, 1, k - 1), SubSeq(s, k + 1, Len(s))>>

\* the targets _try_download_artwork derives from its query
query_targets(query) ==
    LET parts == split_once(query)
    IN IF Len(parts) >= 2
       THEN [artist |-> parts[1], album |-> parts[2]]
       ELSE [artist |-> Missing, album |-> query]

InitQuery ==
    /\ tag_album \in QueryAlbums
    /\ tag_artist \in QueryArtists
    /\ search_query = EmptyStr
    /\ query_kind = "none"
    /\ passed_artist = Missing
    /\ passed_album = Missing
    /\ ypc = "start"
    /\ QueryOnly

\* the call with "{artist} {album}", made for a named artist; the fetcher
\* is called unless the target file exists
TryArtistAlbumQuery ==
    /\ ypc = "start"
    /\ NamedArtist(tag_artist)
    /\ search_query' = tag_artist \o <<" ">> \o tag_album
    /\ \E file_exists \in BOOLEAN :
          IF file_exists
          THEN /\ query_kind' = "artist_album_exists"
               /\ ypc' = "returned"
               /\ UNCHANGED <<passed_artist, passed_album>>
          ELSE /\ query_kind' = "artist_album"
               /\ passed_artist' = query_targets(search_query').artist
               /\ passed_album' = query_targets(search_query').album
               /\ \E found \in BOOLEAN : ypc' = IF found THEN "returned" ELSE "first"
    /\ UNCHANGED <<tag_album, tag_artist>>
    /\ UNCHANGED notQueryVars

\* the call with "{album}" alone, made when there is no named artist or
\* the first call returned nothing
TryAlbumOnlyQuery ==
    /\ \/ ypc = "start" /\ ~NamedArtist(tag_artist)
       \/ ypc = "first"
    /\ search_query' = tag_album
    /\ \E file_exists \in BOOLEAN :
          IF file_exists
          THEN /\ query_kind' = "album_only_exists"
               /\ UNCHANGED <<passed_artist, passed_album>>
          ELSE /\ query_kind' = "album_only"
               /\ passed_artist' = query_targets(search_query').artist
               /\ passed_album' = query_targets(search_query').album
    /\ ypc' = "returned"
    /\ UNCHANGED <<tag_album, tag_artist>>
    /\ UNCHANGED notQueryVars

NextQuery == TryArtistAlbumQuery \/ TryAlbumOnlyQuery

SpecQuery == InitQuery /\ [][NextQuery]_vars

\* C23: for the album-only query the fetcher gets no target artist and the
\* whole query as the target album, however many words the album name has.
C23_AlbumOnlyQueryHasNoArtist ==
    query_kind = "album_only"
        => /\ passed_artist = Missing
           /\ passed_album = search_query
           /\ search_query = tag_album

----------------------------------------------------------------------------
(* Specification of the requests of TowerRecordsScraper: its three         *)
(* methods that fetch a page are called one after the other by a single    *)
(* thread; each sleeps, sends one request on the session and waits for     *)
(* the response or the error.                                              *)

MaxCalls == 3

ScraperMethods == {"search_album", "get_product_detail_html", "parse_track_credits"}

\* a variant of the methods that sends the request without the delay
request_steps_undelayed(method) == <<"get", "return">>

\* what a method does up to its return: time.sleep(1), then
\* self.session.get(url, timeout=10), the same in the three methods
request_steps(method) == <<"sleep", "get", "return">>

ThisStep == request_steps(scraper_method)[scraper_pc]

InitScraper ==
    /\ scraper_method = "none"
    /\ scraper_pc = 0
    /\ events = <<>>
    /\ in_flight = 0
    /\ calls_made = 0
    /\ ScraperOnly

\* the caller calls one of the three methods
CallScraper ==
    /\ scraper_method = "none"
    /\ calls_made < MaxCalls
    /\ \E method \in ScraperMethods : scraper_method' = method
    /\ scraper_pc' = 1
    /\ calls_made' = calls_made + 1
    /\ UNCHANGED <<events, in_flight>>
    /\ UNCHANGED notScraperVars

\* time.sleep(1)
SleepOneSecond ==
    /\ scraper_method # "none"
    /\ in_flight = 0
    /\ ThisStep = "sleep"
    /\ events' = Append(events, [kind |-> "sleep", seconds |-> 1, by |-> scraper_method])
    /\ scraper_pc' = scraper_pc + 1
    /\ UNCHANGED <<scraper_method, in_flight, calls_made>>
    /\ UNCHANGED notScraperVars

\* self.session.get(url, timeout=10) is entered: the request is in flight
SendRequest ==
    /\ scraper_method # "none"
    /\ in_flight = 0
    /\ ThisStep = "get"
    /\ events' = Append(events, [kind |-> "get", seconds |-> 0, by |-> scraper_method])
    /\ in_flight' = in_flight + 1
    /\ UNCHANGED <<scraper_method, scraper_pc, calls_made>>
    /\ UNCHANGED notScraperVars

\* session.get returns the response or raises (status, timeout, network)
ReceiveResponse ==
    /\ scraper_method # "none"
    /\ in_flight > 0
    /\ in_flight' = in_flight - 1
    /\ scraper_pc' = scraper_pc + 1
    /\ UNCHANGED <<scraper_method, events, calls_made>>
    /\ UNCHANGED notScraperVars

\* the page is parsed, or the error caught, and the method returns
ReturnFromScraper ==
    /\ scraper_method # "none"
    /\ in_flight = 0
    /\ ThisStep = "return"
    /\ scraper_method' = "none"
    /\ scraper_pc' = 0
    /\ UNCHANGED <<events, in_flight, calls_made>>
    /\ UNCHANGED notScraperVars

NextScraper ==
    \/ CallScraper
    \/ SleepOneSecond
    \/ SendRequest
    \/ ReceiveResponse
    \/ ReturnFromScraper

SpecScraper == InitScraper /\ [][NextScraper]_vars

\* C24: every request of the three methods is immediately preceded by the
\* delay of one second of the same method, and at no time is more than one
\* request in flight.
C24_DelayBeforeEveryRequest ==
    /\ in_flight <= 1
    /\ \A i \in DOMAIN events :
          events[i].kind = "get"
              => /\ i > 1
                 /\ events[i - 1].kind = "sleep"
                 /\ events[i - 1].seconds = 1
                 /\ events[i - 1].by = events[i].by

\* the second request of a run is in flight, after the two delays
C24_Witness ==
    /\ in_flight = 1
    /\ Len(events) = 4
    /\ events[2].kind = "get" /\ events[2].by = "search_album"
    /\ events[3].kind = "sleep"
    /\ events[4].kind = "get" /\ events[4].by = "parse_track_credits"

====
